---- MODULE Spec2Model ----
(***************************************************************************)
(* Model of the stochastic simulation engine of mpbn                       *)
(* (src/mpbn/simulation.py): bound propagation (spread, irreversible),     *)
(* enumeration of the transition spaces (reachable_spaces), the sampler    *)
(* (sample_configuration, step), the driver (sample_reachable_attractor)   *)
(* and the sequential and parallel estimators.                             *)
(*                                                                         *)
(* A Boolean network f is a function from node names to formulas in        *)
(* disjunctive normal form: a set of clauses, a clause being a set of      *)
(* literals <<node, sign>> with sign 1 (positive) or -1 (negated).  The    *)
(* empty set of clauses is the constant 0, the set holding the empty       *)
(* clause is the constant 1.  A configuration is a function from node      *)
(* names to {0, 1}.  Random draws are nondeterministic choices.            *)
(***************************************************************************)
EXTENDS Integers, Sequences, FiniteSets, TLC

Pos(j) == <<j, 1>>
Neg(j) == <<j, -1>>

(***************************************************************************)
(* Input networks.  All are unate DNF, as MPBNSim.__init__ enforces.       *)
(***************************************************************************)
\* the example of the package documentation: a = !b, b = !a, c = !a & b
Automata18 ==
    [a |-> {{Neg("b")}}, b |-> {{Neg("a")}}, c |-> {{Neg("a"), Pos("b")}}]

\* a bistable switch b/c driving a negative self-loop: a = !a & b, b = !c, c = !b
SwitchCycle ==
    [a |-> {{Neg("a"), Pos("b")}}, b |-> {{Neg("c")}}, c |-> {{Neg("b")}}]

\* asynchronous cycle 010 -> 110 -> 111 -> 110 .. that avoids both fixed points:
\* a = c | (b & !a), b = (a & b) | (a & !c) | (b & !c), c = (a & !b) | (a & !c)
MotifAvoidant ==
    [a |-> {{Pos("c")}, {Pos("b"), Neg("a")}},
     b |-> {{Pos("a"), Pos("b")}, {Pos("a"), Neg("c")}, {Pos("b"), Neg("c")}},
     c |-> {{Pos("a"), Neg("b")}, {Pos("a"), Neg("c")}}]

\* constants and a cascade: a = 1, b = a, c = b & !d, d = c
Cascade ==
    [a |-> {{}}, b |-> {{Pos("a")}}, c |-> {{Pos("b"), Neg("d")}}, d |-> {{Pos("c")}}]

\* two nodes: a = a | b, b = !a
TwoNodes ==
    [a |-> {{Pos("a")}, {Pos("b")}}, b |-> {{Neg("a")}}]

\* two constant inputs and their conjunction: a = 1, b = 1, c = a & b
TwoInputs ==
    [a |-> {{}}, b |-> {{}}, c |-> {{Pos("a"), Pos("b")}}]

\* a three-way choice beside a free oscillator:
\* a = !b, b = !a, c = a & c, d = !d
ThreeWayClock ==
    [a |-> {{Neg("b")}}, b |-> {{Neg("a")}}, c |-> {{Pos("a"), Pos("c")}},
     d |-> {{Neg("d")}}]

\* three constant inputs and a node that latches unless the first input has
\* risen before it: a = 1, b = 1, c = 1, d = !a | d
LateLatch ==
    [a |-> {{}}, b |-> {{}}, c |-> {{}}, d |-> {{Neg("a")}, {Pos("d")}}]

\* the '*' of an attractor as returned by MPBooleanNetwork.attractors()
STAR == 2

(***************************************************************************)
(* MPBNSim                                                                 *)
(***************************************************************************)
\* deps[i][s]: the nodes occurring with sign s in the formula of i
deps(f, i, s) == {j \in DOMAIN f : \E c \in f[i] : <<j, s>> \in c}

\* compiled_f[i](x): the formula of i evaluated at configuration x
local_eval(f, i, x) ==
    \E c \in f[i] : \A l \in c : (x[l[1]] = 1) <=> (l[2] = 1)

\* y = x.copy(); for (s, v) in lim: for j in deps[i][s]: if j in H: y[j] = v
\* lim is a sequence of pairs <<s, v>>; later pairs overwrite earlier ones
_lim_configuration(f, x, i, H, lim) ==
    LET first  == deps(f, i, lim[1][1]) \cap H
        second == deps(f, i, lim[2][1]) \cap H
    IN  [j \in DOMAIN x |->
            IF j \in second THEN lim[2][2]
            ELSE IF j \in first THEN lim[1][2]
            ELSE x[j]]

\* mutation of LIM_MIN: the sign of a dependency is not used
LIM_MIN_unsigned == <<<<1, 0>>, <<-1, 0>>>>

LIM_MIN == <<<<1, 0>>, <<-1, 1>>>>
LIM_MAX == <<<<1, 1>>, <<-1, 0>>>>
min_configuration(f, x, i, H) == _lim_configuration(f, x, i, H, LIM_MIN)
max_configuration(f, x, i, H) == _lim_configuration(f, x, i, H, LIM_MAX)

\* mutation of can_flip: the formula is evaluated at x itself, the free nodes
\* of H keep their values
can_flip_at_x(f, x, i, H, v) == local_eval(f, i, x) # (v = 1)

\* v is 0 or 1; bool(v) is v = 1
can_flip(f, x, i, H, v) ==
    LET z == IF v = 1 THEN min_configuration(f, x, i, H)
                      ELSE max_configuration(f, x, i, H)
    IN  local_eval(f, i, z) # (v = 1)

\* the loop of spread: r rounds left, H accumulated, I still candidate
RECURSIVE spread_loop(_, _, _, _, _)
spread_loop(f, x, I, H, r) ==
    IF r = 0 THEN H
    ELSE LET J  == {i \in I : can_flip(f, x, i, H, x[i])}
             H2 == H \cup J
             I2 == I \ J
         IN  IF I2 = {} \/ J = {} THEN H2
             ELSE spread_loop(f, x, I2, H2, r - 1)

\* mutation of spread: a single round whatever the depth
spread_one_round(f, x, I, d) == spread_loop(f, x, I, {}, 1)

\* lines 80-92
spread(f, x, I, d) == spread_loop(f, x, I, {}, d)

irreversible(f, x, H) == {i \in H : ~can_flip(f, x, i, H, 1 - x[i])}

(***************************************************************************)
(* The same functions as calls: what a call returns (ret) and the caller's *)
(* dictionary x as the call leaves it (x).  A set is iterated in the order *)
(* the sequence order gives to its nodes; Python fixes no order.           *)
(***************************************************************************)
ordered(T, order) == SelectSeq(order, LAMBDA i : i \in T)

\* mutation of _lim_configuration_call: y = x instead of y = x.copy()
_lim_configuration_in_place(f, x, i, H, lim) ==
    [ret |-> _lim_configuration(f, x, i, H, lim),
     x   |-> _lim_configuration(f, x, i, H, lim)]

\* lines 54-60: the assignments of line 59 go to the copy made at line 55
_lim_configuration_call(f, x, i, H, lim) ==
    [ret |-> _lim_configuration(f, x, i, H, lim), x |-> x]

\* lines 67-78
can_flip_call(f, x, i, H, v) ==
    LET z == _lim_configuration_call(f, x, i, H, IF v = 1 THEN LIM_MIN ELSE LIM_MAX)
    IN  [ret |-> local_eval(f, i, z.ret) # (v = 1), x |-> z.x]

\* the comprehensions of lines 87 and 98 over the nodes s[n], s[n+1], ..:
\* {i for i in I if can_flip(f, x, i, H, x[i])} when back is FALSE,
\* {i for i in H if not can_flip(f, x, i, H, 1-x[i])} when back is TRUE
RECURSIVE comprehension_call(_, _, _, _, _, _, _)
comprehension_call(f, x, s, n, H, back, J) ==
    IF n > Len(s) THEN [ret |-> J, x |-> x]
    ELSE LET i    == s[n]
             c    == can_flip_call(f, x, i, H, IF back THEN 1 - x[i] ELSE x[i])
             keep == IF back THEN ~c.ret ELSE c.ret
         IN  comprehension_call(f, c.x, s, n + 1, H, back,
                                IF keep THEN J \cup {i} ELSE J)

\* the loop of lines 86-91 with r iterations of range(d) left and done
\* iterations performed
RECURSIVE spread_loop_call(_, _, _, _, _, _, _)
spread_loop_call(f, x, I, H, r, order, done) ==
    IF r <= 0 THEN [ret |-> H, x |-> x, rounds |-> done]
    ELSE LET c  == comprehension_call(f, x, ordered(I, order), 1, H, FALSE, {})
             H2 == H \cup c.ret
             I2 == I \ c.ret
         IN  IF I2 = {} \/ c.ret = {}
             THEN [ret |-> H2, x |-> c.x, rounds |-> done + 1]
             ELSE spread_loop_call(f, c.x, I2, H2, r - 1, order, done + 1)

\* mutation of spread_call: the loop runs until nothing more can flip
spread_call_unbounded(f, x, I, d, order) ==
    spread_loop_call(f, x, I, {}, Cardinality(I) + 1, order, 0)

\* lines 80-92
spread_call(f, x, I, d, order) == spread_loop_call(f, x, I, {}, d, order, 0)

\* mutation of irreversible_call: every node of H is taken as irreversible
irreversible_call_all(f, x, H, order) == [ret |-> H, x |-> x]

\* mutation of irreversible_call: the test is made with the current value
\* x[i] instead of 1-x[i]
irreversible_call_current(f, x, H, order) ==
    [ret |-> {i \in H : ~can_flip(f, x, i, H, x[i])}, x |-> x]

\* lines 94-98
irreversible_call(f, x, H, order) ==
    comprehension_call(f, x, ordered(H, order), 1, H, TRUE, {})

(***************************************************************************)
(* reachable_spaces                                                        *)
(***************************************************************************)
\* iteration order of a set of nodes (the model fixes one order)
NodeOrder == <<"a", "b", "c", "d">>
OrderedSeq(T) == SelectSeq(NodeOrder, LAMBDA i : i \in T)

\* itertools.combinations(s, k) for a sequence s, as a sequence of sets
RECURSIVE combinations(_, _)
combinations(s, k) ==
    IF k = 0 THEN <<{}>>
    ELSE IF Len(s) < k THEN <<>>
    ELSE LET with == combinations(Tail(s), k - 1)
         IN  [n \in 1..Len(with) |-> {Head(s)} \cup with[n]]
             \o combinations(Tail(s), k)

\* chain.from_iterable(combinations(L, k) for k in range(from, len(L)+1))
RECURSIVE chain_combinations(_, _)
chain_combinations(s, from) ==
    IF from > Len(s) THEN <<>>
    ELSE combinations(s, from) \o chain_combinations(s, from + 1)

\* mutation of enqueue: J is appended whether known or not
RECURSIVE enqueue_unchecked(_, _, _, _, _)
enqueue_unchecked(I, Ms, n, K, Q) ==
    IF n > Len(Ms) THEN [K |-> K, Q |-> Q]
    ELSE enqueue_unchecked(I, Ms, n + 1, K \cup {I \ Ms[n]}, Append(Q, I \ Ms[n]))

\* the for loop of lines 119-123 over the subsets Ms of L, from position n
RECURSIVE enqueue(_, _, _, _, _)
enqueue(I, Ms, n, K, Q) ==
    IF n > Len(Ms) THEN [K |-> K, Q |-> Q]
    ELSE LET J == I \ Ms[n]
         IN  IF J \notin K THEN enqueue(I, Ms, n + 1, K \cup {J}, Append(Q, J))
             ELSE enqueue(I, Ms, n + 1, K, Q)

\* the while loop of reachable_spaces; S is the list of <<H, L>> built so far
RECURSIVE reachable_spaces_loop(_, _, _, _, _, _)
reachable_spaces_loop(f, x, d, K, Q, S) ==
    IF Q = <<>> THEN S
    ELSE LET I  == Head(Q)
             H0 == spread(f, x, I, d)
         IN  IF H0 = {} THEN reachable_spaces_loop(f, x, d, K, Tail(Q), S)
             ELSE LET L  == IF d > 1 THEN irreversible(f, x, H0) ELSE {}
                      H  == H0 \ L
                      KQ == enqueue(I, chain_combinations(OrderedSeq(L), 1),
                                    1, K, Tail(Q))
                  IN  reachable_spaces_loop(f, x, d, KQ.K, KQ.Q,
                                            Append(S, <<H, L>>))

\* d is the resolved depth (depth() if callable(depth) else depth)
reachable_spaces(f, x, d) ==
    reachable_spaces_loop(f, x, d, {DOMAIN f}, <<DOMAIN f>>, <<>>)

\* the while loop of reachable_spaces as a call: P lists the sets I popped
\* from Q (line 111), in order
RECURSIVE reachable_spaces_loop_call(_, _, _, _, _, _, _, _)

\* mutation of append_space_call: line 116 left out, H keeps the nodes of L
append_space_call_whole(f, d, order, K, Q, S, P, H0, ir) ==
    LET KQ == enqueue(Head(Q), chain_combinations(ordered(ir.ret, order), 1),
                      1, K, Tail(Q))
    IN  reachable_spaces_loop_call(f, ir.x, d, order, KQ.K, KQ.Q,
                                   Append(S, <<H0, ir.ret>>),
                                   Append(P, Head(Q)))

\* lines 116-123, once irreversible has returned ir for the set H0 that
\* spread returned
append_space_call(f, d, order, K, Q, S, P, H0, ir) ==
    LET KQ == enqueue(Head(Q), chain_combinations(ordered(ir.ret, order), 1),
                      1, K, Tail(Q))
    IN  reachable_spaces_loop_call(f, ir.x, d, order, KQ.K, KQ.Q,
                                   Append(S, <<H0 \ ir.ret, ir.ret>>),
                                   Append(P, Head(Q)))

\* mutation of after_spread_call: a set of a single node is discarded as well
after_spread_call_single_discarded(f, d, order, K, Q, S, P, sp) ==
    IF Cardinality(sp.ret) <= 1
    THEN reachable_spaces_loop_call(f, sp.x, d, order, K, Tail(Q), S,
                                    Append(P, Head(Q)))
    ELSE append_space_call(f, d, order, K, Q, S, P, sp.ret,
                           IF d > 1 THEN irreversible_call(f, sp.x, sp.ret, order)
                                    ELSE [ret |-> {}, x |-> sp.x])

\* mutation of after_spread_call: irreversible is called whatever the depth
after_spread_call_any_depth(f, d, order, K, Q, S, P, sp) ==
    IF sp.ret = {}
    THEN reachable_spaces_loop_call(f, sp.x, d, order, K, Tail(Q), S,
                                    Append(P, Head(Q)))
    ELSE append_space_call(f, d, order, K, Q, S, P, sp.ret,
                           irreversible_call(f, sp.x, sp.ret, order))

\* lines 113-115, once spread has returned sp for the set popped
after_spread_call(f, d, order, K, Q, S, P, sp) ==
    IF sp.ret = {}
    THEN reachable_spaces_loop_call(f, sp.x, d, order, K, Tail(Q), S,
                                    Append(P, Head(Q)))
    ELSE append_space_call(f, d, order, K, Q, S, P, sp.ret,
                           IF d > 1 THEN irreversible_call(f, sp.x, sp.ret, order)
                                    ELSE [ret |-> {}, x |-> sp.x])

\* mutation of reachable_spaces_loop_call: spread is asked about all the
\* nodes, not about the set popped
reachable_spaces_loop_call_all_nodes(f, x, d, order, K, Q, S, P) ==
    IF Q = <<>> THEN [ret |-> S, x |-> x, processed |-> P]
    ELSE after_spread_call(f, d, order, K, Q, S, P,
                           spread_call(f, x, DOMAIN f, d, order))

\* lines 110-112
reachable_spaces_loop_call(f, x, d, order, K, Q, S, P) ==
    IF Q = <<>> THEN [ret |-> S, x |-> x, processed |-> P]
    ELSE after_spread_call(f, d, order, K, Q, S, P,
                           spread_call(f, x, Head(Q), d, order))

\* lines 100-124 for a resolved depth d
reachable_spaces_call(f, x, d, order) ==
    reachable_spaces_loop_call(f, x, d, order, {DOMAIN f}, <<DOMAIN f>>, <<>>, <<>>)

\* what two calls in a row returned and left of x: c1 the first call, c2 the
\* second, made on the dictionary the first left
two_calls(d, c1, c2) ==
    [op |-> "reachable_spaces", d |-> d, first |-> c1.ret,
     processed |-> c1.processed, between |-> c1.x, second |-> c2.ret,
     after |-> c2.x]

\* S = reachable_spaces(f, x, d) made a second time, after the call c1
reachable_spaces_again(f, d, order, c1) ==
    two_calls(d, c1, reachable_spaces_call(f, c1.x, d, order))

(***************************************************************************)
(* sample_configuration                                                    *)
(***************************************************************************)
RECURSIVE binom(_, _)
binom(n, k) ==
    IF k = 0 THEN 1
    ELSE IF k > n THEN 0
    ELSE binom(n - 1, k - 1) + binom(n - 1, k)

\* mutation of multiplicity: line 156 left out, flipping exactly L has no weight
multiplicity_without_L(S, s, m) ==
    LET H == S[s][1]
        L == S[s][2]
        nH == Cardinality(H)
        nL == Cardinality(L)
    IN  IF m > nL /\ m <= nL + nH THEN binom(nH, m - nL) ELSE 0

\* mutation of multiplicity: line 158 applies to the spaces with empty L only
multiplicity_L_alone(S, s, m) ==
    LET H == S[s][1]
        L == S[s][2]
    IN  IF L # {} THEN (IF m = Cardinality(L) THEN 1 ELSE 0)
        ELSE IF m <= Cardinality(H) THEN binom(Cardinality(H), m) ELSE 0

\* R[s, m-1] before the multiplication by the rates (lines 153-158)
multiplicity(S, s, m) ==
    LET H == S[s][1]
        L == S[s][2]
        nH == Cardinality(H)
        nL == Cardinality(L)
    IN  IF m > nL /\ m <= nL + nH THEN binom(nH, m - nL)
        ELSE IF L # {} /\ m = nL THEN 1
        ELSE 0

\* mutation of activity: the multiplication by the rates is left out
activity_unweighted(S, W, s, m) == multiplicity(S, s, m)

\* R[s, m-1] after R *= W (line 159); W[m] is the rate of multiplicity m,
\* an integer numerator over a denominator common to the whole vector
activity(S, W, s, m) == multiplicity(S, s, m) * W[m]

\* the flattened array R after R *= W (line 159), rows one after the other:
\* position (s-1)*n + m holds the activity of cell <<s, m>>
flat_activity(S, W, n) ==
    [p \in 1..(Len(S) * n) |-> activity(S, W, ((p - 1) \div n) + 1, ((p - 1) % n) + 1)]

\* R.cumsum(out=...) (line 160): the running sums of a flattened array
RECURSIVE cumsum_from(_, _, _)
cumsum_from(R, p, acc) ==
    IF p > Len(R) THEN <<>>
    ELSE <<acc + R[p]>> \o cumsum_from(R, p + 1, acc + R[p])
cumsum(R) == cumsum_from(R, 1, 0)

\* R[-1,-1] after the cumulative sum
total_activity(cs) == cs[Len(cs)]

\* mutation of select_cell: np.where(R >= r)
select_cell_at_least(cs, n, r) ==
    LET p == CHOOSE q \in 1..Len(cs) : cs[q] >= r /\ \A o \in 1..(q - 1) : cs[o] < r
    IN  <<((p - 1) \div n) + 1, ((p - 1) % n) + 1>>

\* next(zip(*np.where(R > r))) and m += 1 (lines 164-165): the first cell
\* <<s, m>>, in row-major order of the n columns, whose cumulative activity
\* exceeds the draw r
select_cell(cs, n, r) ==
    LET p == CHOOSE q \in 1..Len(cs) : cs[q] > r /\ \A o \in 1..(q - 1) : cs[o] <= r
    IN  <<((p - 1) \div n) + 1, ((p - 1) % n) + 1>>

\* choice(list(H), k, replace=False): the subsets of H of size k
choice(H, k) == {T \in SUBSET H : Cardinality(T) = k}

\* x with the nodes of C flipped (lines 170-171)
flip(x, C) == [i \in DOMAIN x |-> IF i \in C THEN 1 - x[i] ELSE x[i]]

\* uniform(0, R[-1,-1]) (line 162): the draws, one for every cell a draw can
\* select.  All the draws r with cs[p] - R[p] <= r < cs[p] select the cell at
\* position p; the largest whole one stands for them.
draws(R, cs) == {cs[p] - 1 : p \in {q \in 1..Len(R) : R[q] > 0}}

\* mutation of flip_sets: C starts empty instead of as set(L)
flip_sets_without_L(S, cell) ==
    LET H == S[cell[1]][1]
        L == S[cell[1]][2]
    IN  IF H # {} THEN choice(H, cell[2] - Cardinality(L)) ELSE {{}}

\* lines 167-169: the sets C can be after C.update(choice(list(H), m-len(C),
\* replace=False)) for the selected cell <<s, m>>
flip_sets(S, cell) ==
    LET H == S[cell[1]][1]
        L == S[cell[1]][2]
    IN  IF H # {} THEN {L \cup T : T \in choice(H, cell[2] - Cardinality(L))}
        ELSE {L}

\* what one call of sample_configuration did: the configuration before and
\* after, the space and multiplicity selected, the nodes flipped, len(S)
sampled(xc, S, cell, Cs) ==
    [noop |-> FALSE, pre |-> xc, post |-> flip(xc, Cs), H |-> S[cell[1]][1],
     L |-> S[cell[1]][2], m |-> cell[2], flipped |-> Cs, spaces |-> Len(S)]

\* lines 146-171: everything one call of sample_configuration can do at xc
\* with the spaces S and the rates Wn
sample_outcomes(xc, S, Wn) ==
    LET n  == Cardinality(DOMAIN xc)
        R  == flat_activity(S, Wn, n)
        cs == cumsum(R)
    IN  UNION {LET cell == select_cell(cs, n, draw)
               IN  {sampled(xc, S, cell, Cs) : Cs \in flip_sets(S, cell)}
               : draw \in draws(R, cs)}

(***************************************************************************)
(* attractor filtering                                                     *)
(***************************************************************************)
\* mutation of filter_reachable_attractors: the region is the nodes that can
\* flip at once, spread(f, x, I, 1)
filter_reachable_attractors_one_round(f, A, x) ==
    LET H == spread(f, x, DOMAIN f, 1)
    IN  SelectSeq(A, LAMBDA e : e[2][2] \subseteq H
                     /\ {i \in (DOMAIN e[2][1]) \ H : e[2][1][i] # x[i]} = {})

\* mutation of is_subhypercube: the fixed coordinates are not compared
is_subhypercube_free_sets(a, b) == a[2] \subseteq b[2]

\* mutation of is_subhypercube: the free nodes must be a proper subset
is_subhypercube_proper(a, b) ==
    /\ a[2] \subseteq b[2] /\ a[2] # b[2]
    /\ {i \in (DOMAIN a[1]) \ b[2] : a[1][i] # b[1][i]} = {}

\* a = <<x, H>> with x a partial configuration, b = <<y, G>>
is_subhypercube(a, b) ==
    /\ a[2] \subseteq b[2]
    /\ {i \in (DOMAIN a[1]) \ b[2] : a[1][i] # b[1][i]} = {}

\* A is a sequence of pairs <<ia, a>>
filter_reachable_attractors(f, A, x) ==
    LET H == spread(f, x, DOMAIN f, Cardinality(DOMAIN f))
    IN  SelectSeq(A, LAMBDA e : is_subhypercube(e[2], <<x, H>>))

\* an attractor is a function from nodes to 0, 1 or STAR
convert_attractor(a) ==
    LET H  == {i \in DOMAIN a : a[i] = STAR}
        fx == [i \in {j \in DOMAIN a : a[j] # STAR} |-> a[i]]
    IN  <<fx, H>>

\* list(enumerate(map(convert_attractor, A))): identifiers start at 0
enumerate_attractors(As) == [n \in 1..Len(As) |-> <<n - 1, convert_attractor(As[n])>>]

(***************************************************************************)
(* Parametrizations                                                        *)
(***************************************************************************)
RECURSIVE factorial(_)
factorial(n) == IF n = 0 THEN 1 ELSE n * factorial(n - 1)

RECURSIVE power(_, _)
power(b, e) == IF e = 0 THEN 1 ELSE b * power(b, e - 1)

\* A rate vector is [num |-> <<..>>, den |-> d]: the rate of multiplicity m is
\* num[m] / den.  uniform_rates returns the scalar 1, which R *= W broadcasts.
uniform_rates(f) ==
    [num |-> [m \in 1..Cardinality(DOMAIN f) |-> 1], den |-> 1]
\* mutation of fully_asynchronous_rates: two simultaneous flips keep a rate
fully_asynchronous_rates_pairs(f) ==
    [num |-> [m \in 1..Cardinality(DOMAIN f) |-> IF m <= 2 THEN 1 ELSE 0], den |-> 1]
fully_asynchronous_rates(f) ==
    [num |-> [m \in 1..Cardinality(DOMAIN f) |-> IF m = 1 THEN 1 ELSE 0], den |-> 1]
reciprocal_rates(f) ==
    LET n == Cardinality(DOMAIN f)
    IN  [num |-> [m \in 1..n |-> factorial(n) \div m], den |-> factorial(n)]
nexponential_rates(f) ==
    LET n == Cardinality(DOMAIN f)
    IN  [num |-> [m \in 1..n |-> power(2, n - m)], den |-> power(2, n - 1)]

\* A depth is [callable |-> FALSE, d |-> value] or [callable |-> TRUE, d |-> 0]
constant_maximum_depth(f) == [callable |-> FALSE, d |-> Cardinality(DOMAIN f)]
constant_unitary_depth(f) == [callable |-> FALSE, d |-> 1]
\* poly_depth, reciprocal_depth, nexponential_depth: a draw among 1..n, every
\* value having non-zero probability
random_depth(f) == [callable |-> TRUE, d |-> 0]

\* d = depth() if callable(depth) else depth: the values d can take
resolve_depth(f, dp) ==
    IF dp.callable THEN 1..Cardinality(DOMAIN f) ELSE {dp.d}

(***************************************************************************)
(* MPBooleanNetwork: assignment of a function to a component               *)
(* (src/mpbn/__init__.py).  A function is handed over as a formula in      *)
(* disjunctive form, unate or not, minimal or not.                         *)
(***************************************************************************)
supported_encodings ==
    {"unate-dnf", "bdd", "circuit", "dnf-bdd", "mixed-dnf-bdd", "force-unate-dnf"}
dnf_encodings == {"dnf-bdd", "unate-dnf", "force-unate-dnf", "mixed-dnf-bdd"}
DEFAULT_ENCODING == "mixed-dnf-bdd"

\* mutation of sim_encoding: the keyword of line 20 left out
sim_encoding_default == DEFAULT_ENCODING

\* the encoding MPBNSim.__init__ hands to MPBooleanNetwork.__init__
sim_encoding == "unate-dnf"

\* self.auto_dnf = auto_dnf and encoding in self.dnf_encodings, auto_dnf=True
auto_dnf(e) == e \in dnf_encodings

\* f.symbols
symbols(fm) == {l[1] : l \in UNION fm}

\* the value of the formula fm under the valuation v of its symbols
eval_formula(fm, v) == \E c \in fm : \A l \in c : (v[l[1]] = 1) <=> (l[2] = 1)

\* ba_to_bdd: the function of fm over its sorted symbols, as the set of the
\* valuations that satisfy it
ba_to_bdd(fm) ==
    [vars |-> symbols(fm),
     sat  |-> {v \in [symbols(fm) -> {0, 1}] : eval_formula(fm, v)}]

\* the valuations of the variables of a function that satisfy the clauses D
covered(bdd, D) == {v \in [bdd.vars -> {0, 1}] : eval_formula(D, v)}

\* the non-empty conjunctions of literals that imply the function
implicants(bdd) ==
    {c \in SUBSET (bdd.vars \X {1, -1}) :
        /\ c # {}
        /\ \A j \in bdd.vars : ~(<<j, 1>> \in c /\ <<j, -1>> \in c)
        /\ covered(bdd, {c}) \subseteq bdd.sat}

\* bdd_to_dnf: TRUE, FALSE, or what Bdd.to_dnf(optimize=True) of the library
\* biodivine_aeon returns: a disjunction of clauses equivalent to the
\* function.  Which one is the library's choice: every disjunction of
\* implicants without a superfluous clause is a possible outcome.
bdd_to_dnf(bdd) ==
    IF bdd.sat = [bdd.vars -> {0, 1}] THEN {{{}}}
    ELSE IF bdd.sat = {} THEN {{}}
    ELSE {D \in SUBSET implicants(bdd) :
            /\ covered(bdd, D) = bdd.sat
            /\ \A c \in D : covered(bdd, D \ {c}) # bdd.sat}

\* make_dnf_boolfunc(ba, f): the formulas it can return
make_dnf_boolfunc(fm) == bdd_to_dnf(ba_to_bdd(fm))

\* what __setitem__ of a network of encoding e can store for fm
dnf_outcomes(e, fm) == IF auto_dnf(e) THEN make_dnf_boolfunc(fm) ELSE {fm}

\* mutation of is_dnf_unate: the polarities are compared inside each clause
is_dnf_unate_per_clause(fm) ==
    \A c \in fm : {l[1] : l \in {t \in c : t[2] = 1}}
                      \cap {l[1] : l \in {t \in c : t[2] = -1}} = {}

\* is_dnf_unate(ba, f) for a disjunction of clauses: no symbol is both in
\* pos_lits and in neg_lits
is_dnf_unate(fm) ==
    LET pos_lits == {l[1] : l \in {t \in UNION fm : t[2] = 1}}
        neg_lits == {l[1] : l \in {t \in UNION fm : t[2] = -1}}
    IN  pos_lits \cap neg_lits = {}

\* the assert of line 226
setitem_raises(e, dnf) == e = "unate-dnf" /\ ~is_dnf_unate(dnf)

\* dict.__setitem__
store(d, key, v) == [i \in (DOMAIN d) \cup {key} |-> IF i = key THEN v ELSE d[i]]

\* the formulas assigned: the one of tests/test_input.py, (b&!c)|(!b&c), then
\* !b, b|c, (b&c)|(b&!c), b&!c, 0 and 1
Xor == {{Pos("b"), Neg("c")}, {Neg("b"), Pos("c")}}
Formulas ==
    {Xor, {{Neg("b")}}, {{Pos("b")}, {Pos("c")}},
     {{Pos("b"), Pos("c")}, {Pos("b"), Neg("c")}}, {{Pos("b"), Neg("c")}}, {}, {{}}}
Components == {"a", "b"}
Encodings == {"unate-dnf", DEFAULT_ENCODING, "force-unate-dnf", "bdd"}

(***************************************************************************)
(* Most-permissive dynamics, the reference the filtering is compared with. *)
(* A node is 0, 1, increasing (INC) or decreasing (DEC).  A node that is   *)
(* increasing or decreasing is read as 0 or as 1 by the other nodes.  A    *)
(* node at 0 or decreasing may start increasing when its function can      *)
(* evaluate to 1, a node at 1 or increasing may start decreasing when its  *)
(* function can evaluate to 0; an increasing node may become 1 and a       *)
(* decreasing node 0 at any time.                                          *)
(***************************************************************************)
INC == 2
DEC == 3

\* the binary configurations an MP configuration z admits
mp_readings(z) ==
    {y \in [DOMAIN z -> {0, 1}] : \A i \in DOMAIN z : z[i] \in {0, 1} => y[i] = z[i]}

mp_can_evaluate(f, z, i, v) == \E y \in mp_readings(z) : local_eval(f, i, y) = (v = 1)

mp_successors(f, z) ==
    {[z EXCEPT ![i] = INC] : i \in {j \in DOMAIN z : z[j] \in {0, DEC} /\ mp_can_evaluate(f, z, j, 1)}}
    \cup {[z EXCEPT ![i] = DEC] : i \in {j \in DOMAIN z : z[j] \in {1, INC} /\ mp_can_evaluate(f, z, j, 0)}}
    \cup {[z EXCEPT ![i] = 1] : i \in {j \in DOMAIN z : z[j] = INC}}
    \cup {[z EXCEPT ![i] = 0] : i \in {j \in DOMAIN z : z[j] = DEC}}

RECURSIVE mp_closure(_, _, _)
mp_closure(f, frontier, seen) ==
    IF frontier = {} THEN seen
    ELSE LET new == (UNION {mp_successors(f, z) : z \in frontier}) \ seen
         IN  mp_closure(f, new, seen \cup new)

\* the binary configurations reachable from the binary configuration x
mp_reachable(f, x) ==
    {z \in mp_closure(f, {x}, {x}) : \A i \in DOMAIN z : z[i] \in {0, 1}}

\* the attractor (hypercube a = <<fixed coordinates, free nodes>>) is reachable
\* from x: one of its configurations is
mp_reaches_attractor(f, x, a) ==
    \E y \in mp_reachable(f, x) : \A i \in DOMAIN a[1] : y[i] = a[1][i]

(***************************************************************************)
(* Inputs                                                                  *)
(***************************************************************************)
Networks == <<Automata18, SwitchCycle, MotifAvoidant, TwoNodes, Cascade, TwoInputs>>

\* a set as a list, in some order
RECURSIVE seq_of(_)
seq_of(T) ==
    IF T = {} THEN <<>>
    ELSE LET e == CHOOSE y \in T : TRUE IN <<e>> \o seq_of(T \ {e})

\* mutation of AttractorList: an incomplete list, the fixed points only
AttractorList_fixed_points(f) ==
    seq_of({y \in [DOMAIN f -> {0, 1}] :
               \A i \in DOMAIN f : local_eval(f, i, y) <=> (y[i] = 1)})

\* list(f.attractors()) of each network, as cli/sim.py hands it to the estimators
AttractorList(f) ==
    CASE f = Automata18 ->
            <<[a |-> 0, b |-> 1, c |-> 1], [a |-> 1, b |-> 0, c |-> 0]>>
      [] f = SwitchCycle ->
            <<[a |-> 0, b |-> 0, c |-> 1], [a |-> STAR, b |-> 1, c |-> 0]>>
      [] f = MotifAvoidant ->
            <<[a |-> 0, b |-> 0, c |-> 0], [a |-> 1, b |-> 0, c |-> 1]>>
      [] f = TwoNodes ->
            <<[a |-> 1, b |-> 0]>>
      [] f = Cascade ->
            <<[a |-> 1, b |-> 1, c |-> STAR, d |-> STAR]>>
      [] f = TwoInputs ->
            <<[a |-> 1, b |-> 1, c |-> 1]>>
      [] f = ThreeWayClock ->
            <<[a |-> 0, b |-> 1, c |-> 0, d |-> STAR],
              [a |-> 1, b |-> 0, c |-> 0, d |-> STAR],
              [a |-> 1, b |-> 0, c |-> 1, d |-> STAR]>>
      [] f = LateLatch ->
            <<[a |-> 1, b |-> 1, c |-> 1, d |-> 0], [a |-> 1, b |-> 1, c |-> 1, d |-> 1]>>

\* how many of the networks are explored
NumNetworks == 2
\* the largest nb_sims of the sequential estimator
MaxSims == 2
\* the largest nb_jobs and nb_sims of the parallel estimator
MaxJobs == 4
MaxParSims == 3

\* how far beyond the number of nodes the depths handed to spread and
\* reachable_spaces go
ExtraDepth == 1

\* refresh_rate=10, the default the estimators use
refresh_rate == 10

\* how many messages the pipe under a SimpleQueue holds before put() blocks:
\* q carries one identifier per run, r one tally per worker
QCap == 2
RCap == 3

Rates(f) == {uniform_rates(f), fully_asynchronous_rates(f),
             reciprocal_rates(f), nexponential_rates(f)}
Depths(f) == {constant_maximum_depth(f), constant_unitary_depth(f), random_depth(f)}

(***************************************************************************)
(* State                                                                   *)
(***************************************************************************)
VARIABLES
    f,        \* the network
    x0,       \* the initial configuration handed to the estimator
    A0,       \* the attractor list handed to the estimator
    nb_sims,  \* number of runs asked for
    depth,    \* depth parameter
    W,        \* rate vector
    pc,       \* position of the sequential estimator / of the current run
    sim,      \* runs completed
    C,        \* hit count per attractor identifier (of the estimator)
    result,   \* the mapping returned (percentages as <<numerator, denominator>>)
    x,        \* configuration of the current run
    A,        \* candidate list of the current run
    k,        \* step counter of the current run, kept modulo refresh_rate
    ret,      \* identifier returned by the last completed run
    filtered, \* whether the last operation of the run recomputed the filtering
    last,     \* what an observed call of step did (SpecStep)
    nb_jobs,  \* number of worker processes
    w_nb_sims,\* share of each worker
    wpc,      \* position of each worker process
    wC,       \* local tally of each worker
    wi,       \* runs each worker has completed and signalled
    wia,      \* identifier returned by the current run of each worker
    q,        \* progress channel
    r,        \* result channel
    ci,       \* loop counter of the coordinator
    outcomes, \* how many runs, over all workers, returned each identifier
    encoding, \* the encoding of the network
    is_unate, \* _is_unate of the network
    mem,      \* rows of the scratch buffer mem (mem.nb_spaces)
    since,    \* steps of the run since its start or its last step that did
              \* nothing, modulo refresh_rate (history)
    trace     \* the list sample_trace is building

inputs  == <<f, x0, A0, nb_sims, depth, W, encoding, is_unate>>
seqvars == <<pc, sim, C, result, x, A, k, ret, filtered, last>>
parvars == <<nb_jobs, w_nb_sims, wpc, wC, wi, wia, q, r, ci, outcomes>>
runvars == <<mem, since, trace>>
vars    == <<inputs, seqvars, parvars, runvars>>

NoStep == [noop |-> TRUE, pre |-> <<>>, post |-> <<>>, H |-> {}, L |-> {}, m |-> 0,
           flipped |-> {}, spaces |-> 0]

\* f = MPBNSim(f) (lines 254 and 271) has succeeded: every function has
\* passed the assert of __setitem__
SimNetwork ==
    /\ encoding = sim_encoding
    /\ is_unate = [i \in DOMAIN f |-> is_dnf_unate(f[i])]
    /\ \A i \in DOMAIN f : ~setitem_raises(encoding, f[i])

\* A = list(enumerate(map(convert_attractor, A)))
EA == enumerate_attractors(A0)
Ids == {EA[n][1] : n \in 1..Len(EA)}

\* C = {ia: 0 for (ia,_) in A}
zero_tally == [ia \in Ids |-> 0]

\* mem = MPSimMemory(len(f), len(f)), lines 255 and 279, and __init__, lines
\* 127-131: a buffer of len(f) rows
NewMemory == mem = Cardinality(DOMAIN f)

NoWorkers ==
    /\ nb_jobs = 0
    /\ w_nb_sims = <<>>
    /\ wpc = <<>>
    /\ wC = <<>>
    /\ wi = <<>>
    /\ wia = <<>>
    /\ q = <<>>
    /\ r = <<>>
    /\ ci = 0
    /\ outcomes = <<>>

Init ==
    /\ f \in {Networks[i] : i \in 1..NumNetworks}
    /\ x0 \in [DOMAIN f -> {0, 1}]
    /\ A0 = AttractorList(f)
    /\ SimNetwork
    /\ nb_sims \in 1..MaxSims
    /\ depth \in Depths(f)
    /\ W \in Rates(f)
    /\ pc = "for"
    /\ sim = 0
    /\ C = zero_tally
    /\ result = <<>>
    /\ x = x0
    /\ A = <<>>
    /\ k = 1
    /\ ret = -1
    /\ filtered = FALSE
    /\ NewMemory
    /\ since = 0
    /\ trace = <<>>
    /\ last = NoStep
    /\ NoWorkers

(***************************************************************************)
(* sample_reachable_attractor, called by the loop of the estimator         *)
(***************************************************************************)
\* lines 258-259 and 187-195: a run starts from a copy of x with the filtering
StartRun ==
    /\ pc = "for"
    /\ sim < nb_sims
    /\ x' = x0
    /\ k' = 1
    /\ since' = 0
    /\ A' = filter_reachable_attractors(f, EA, x0)
    /\ filtered' = TRUE
    /\ pc' = "while"
    /\ UNCHANGED <<inputs, mem, trace, sim, C, result, ret, last, parvars>>

\* mutation of step_outcomes: the test of line 175 is left out, step returns
\* True with or without a space
step_outcomes_always_true ==
    UNION {LET S == reachable_spaces(f, x, d)
           IN  IF S = <<>> THEN {[NoStep EXCEPT !.noop = FALSE, !.pre = x, !.post = x]}
               ELSE sample_outcomes(x, S, W.num)
           : d \in resolve_depth(f, depth)}

\* lines 174-178: what step(f, mem, x, depth, W) can do at x.  No transition
\* space: nothing (it returns False); else what sample_configuration can do.
step_outcomes ==
    UNION {LET S == reachable_spaces(f, x, d)
           IN  IF S = <<>> THEN {[NoStep EXCEPT !.pre = x, !.post = x]}
               ELSE sample_outcomes(x, S, W.num)
           : d \in resolve_depth(f, depth)}

\* mutation of ensure_spaces: the buffer is resized to the number asked for
ensure_spaces_resized(rows, nb_spaces) == nb_spaces

\* lines 132-136, mem.ensure_spaces(nb_spaces): the rows of the buffer after
\* the call, resized only when it has fewer rows than asked for
ensure_spaces(rows, nb_spaces) == IF rows < nb_spaces THEN nb_spaces ELSE rows

\* mutation of callers_x_after_write: x = x.copy() is left out, the run
\* writes to the dictionary of its caller
callers_x_after_write_shared(cx, y) == y

\* lines 194 and 215, x = x.copy(): the run writes to a dictionary of its
\* own.  What the dictionary cx of the caller holds once the run has
\* written the configuration y to its x.
callers_x_after_write(cx, y) == cx

\* step returning False: x and mem are left alone.  last is written only
\* when the call is observed.
step_noop(observed) ==
    \E o \in step_outcomes :
        /\ o.noop
        /\ last' = IF observed THEN o ELSE last
        /\ UNCHANGED <<x, mem>>

\* step returning True, after sample_configuration has made room for the
\* spaces (line 147) and flipped the nodes
step_sample(observed) ==
    \E o \in step_outcomes :
        /\ ~o.noop
        /\ mem' = ensure_spaces(mem, o.spaces)
        /\ x' = o.post
        /\ last' = IF observed THEN o ELSE last

\* mutation of StepNoop: k is not reset
StepNoop_counting_on ==
    /\ pc = "while"
    /\ Len(A) > 1
    /\ step_noop(FALSE)
    /\ k' = k
    /\ since' = 0
    /\ filtered' = FALSE
    /\ pc' = "refresh"
    /\ UNCHANGED <<inputs, trace, sim, C, result, A, ret, parvars>>

\* lines 196-200 when step returns False: k = 0
StepNoop ==
    /\ pc = "while"
    /\ Len(A) > 1
    /\ step_noop(FALSE)
    /\ k' = 0
    /\ since' = 0
    /\ filtered' = FALSE
    /\ pc' = "refresh"
    /\ UNCHANGED <<inputs, trace, sim, C, result, A, ret, parvars>>

\* lines 196-199 when step returns True
StepSample ==
    /\ pc = "while"
    /\ Len(A) > 1
    /\ step_sample(FALSE)
    /\ x0' = callers_x_after_write(x0, x')
    /\ since' = (since + 1) % refresh_rate
    /\ filtered' = FALSE
    /\ pc' = "refresh"
    /\ UNCHANGED <<f, A0, nb_sims, depth, W, encoding, is_unate, trace, sim, C, result,
                   A, k, ret, parvars>>

\* mutation of Refresh: the list handed to the run is taken again, unfiltered
Refresh_reloaded ==
    /\ pc = "refresh"
    /\ IF k % refresh_rate = 0
         THEN A' = EA /\ filtered' = TRUE
         ELSE UNCHANGED <<A, filtered>>
    /\ k' = (k + 1) % refresh_rate
    /\ pc' = "while"
    /\ UNCHANGED <<inputs, runvars, sim, C, result, x, ret, last, parvars>>

\* lines 201-203; only k % refresh_rate is ever read, so k is kept modulo it
Refresh ==
    /\ pc = "refresh"
    /\ IF k % refresh_rate = 0
         THEN A' = filter_reachable_attractors(f, A, x) /\ filtered' = TRUE
         ELSE UNCHANGED <<A, filtered>>
    /\ k' = (k + 1) % refresh_rate
    /\ pc' = "while"
    /\ UNCHANGED <<inputs, runvars, sim, C, result, x, ret, last, parvars>>

\* mutation of Return: the loop is left as soon as a candidate exists
Return_first_candidate ==
    /\ pc = "while"
    /\ Len(A) >= 1
    /\ ret' = A[1][1]
    /\ C' = [C EXCEPT ![A[1][1]] = @ + 1]
    /\ sim' = sim + 1
    /\ pc' = "for"
    /\ UNCHANGED <<inputs, runvars, result, x, A, k, filtered, last, parvars>>

\* mutation of Return: the hit is not counted
Return_uncounted ==
    /\ pc = "while"
    /\ Len(A) = 1
    /\ ret' = A[1][1]
    /\ sim' = sim + 1
    /\ pc' = "for"
    /\ UNCHANGED <<inputs, runvars, C, result, x, A, k, filtered, last, parvars>>

\* line 204, return A[0][0], and line 260, C[ia] += 1.  With an empty A the
\* subscript raises IndexError and nothing is returned.
Return ==
    /\ pc = "while"
    /\ Len(A) = 1
    /\ ret' = A[1][1]
    /\ C' = [C EXCEPT ![A[1][1]] = @ + 1]
    /\ sim' = sim + 1
    /\ pc' = "for"
    /\ UNCHANGED <<inputs, runvars, result, x, A, k, filtered, last, parvars>>

(***************************************************************************)
(* estimate_reachable_attractors_probabilities                             *)
(***************************************************************************)
\* mutation of percentage: a fraction of 1 instead of a percentage
percentage_fraction(c, n) == <<c, n>>

\* (C[ia]*100) / nb_sims: the quotient, as the pair <<numerator, denominator>>
percentage(c, n) == <<c * 100, n>>

\* lines 261-262 and 306-307: for ia, _ in A: C[ia] = (C[ia]*100) / nb_sims
percentages(As, Cs, n) == [ia \in DOMAIN Cs |->
    IF \E e \in 1..Len(As) : As[e][1] = ia THEN percentage(Cs[ia], n) ELSE Cs[ia]]

\* lines 261-263
Finish ==
    /\ pc = "for"
    /\ sim = nb_sims
    /\ result' = percentages(EA, C, nb_sims)
    /\ pc' = "done"
    /\ UNCHANGED <<inputs, runvars, sim, C, x, A, k, ret, filtered, last, parvars>>

Next == StartRun \/ StepNoop \/ StepSample \/ Refresh \/ Return \/ Finish

Spec == Init /\ [][Next]_vars

(***************************************************************************)
(* One run under fair sampling.  sample_configuration draws the cell and   *)
(* the nodes at random, every cell of non-zero activity and every subset   *)
(* having non-zero probability: a transition x -> y that is enabled again  *)
(* and again is eventually sampled.                                        *)
(***************************************************************************)
InitLive ==
    /\ f \in {Automata18, MotifAvoidant}
    /\ x0 \in [DOMAIN f -> {0, 1}]
    /\ A0 = AttractorList(f)
    /\ SimNetwork
    /\ nb_sims = 1
    /\ depth \in Depths(f)
    /\ W \in Rates(f)
    /\ pc = "for"
    /\ sim = 0
    /\ C = zero_tally
    /\ result = <<>>
    /\ x = x0
    /\ A = <<>>
    /\ k = 1
    /\ ret = -1
    /\ filtered = FALSE
    /\ NewMemory
    /\ since = 0
    /\ trace = <<>>
    /\ last = NoStep
    /\ NoWorkers

\* the run has ended: the estimator has returned, or A[0] of line 204 raised
Terminated == pc = "done" \/ (pc = "while" /\ Len(A) = 0)

\* the configurations sample_configuration can produce at x
step_targets == {o.post : o \in {t \in step_outcomes : ~t.noop}}

\* the process keeps executing: every operation changes pc
KeepsRunning == <>[]Terminated \/ []<><<pc' # pc>>_vars

\* a configuration y that step can produce again and again is produced
FairSampling ==
    \A y \in [{"a", "b", "c"} -> {0, 1}] :
        []<>(pc = "while" /\ Len(A) > 1 /\ y \in step_targets)
            => []<><<pc = "while" /\ x' = y /\ x' # x>>_vars

SpecLive ==
    InitLive /\ [][Next]_vars /\ WF_vars(Return) /\ WF_vars(Finish)
             /\ KeepsRunning /\ FairSampling

(***************************************************************************)
(* One run on networks where a run lasts: three attractors and a node that *)
(* never stops oscillating, and the network with a cycle beside its two    *)
(* fixed points.                                                           *)
(***************************************************************************)
InitRun ==
    /\ f \in {ThreeWayClock, MotifAvoidant}
    /\ x0 \in [DOMAIN f -> {0, 1}]
    /\ A0 = AttractorList(f)
    /\ SimNetwork
    /\ nb_sims = 1
    /\ depth \in Depths(f)
    /\ W \in Rates(f)
    /\ pc = "for"
    /\ sim = 0
    /\ C = zero_tally
    /\ result = <<>>
    /\ x = x0
    /\ A = <<>>
    /\ k = 1
    /\ ret = -1
    /\ filtered = FALSE
    /\ NewMemory
    /\ since = 0
    /\ trace = <<>>
    /\ last = NoStep
    /\ NoWorkers

SpecRun == InitRun /\ [][Next]_vars

(***************************************************************************)
(* One call of step, observed: from any configuration, with any depth and  *)
(* rate vector of the catalogue.                                           *)
(***************************************************************************)
InitStep ==
    /\ f \in {Networks[i] : i \in 1..Len(Networks)}
    /\ x0 \in [DOMAIN f -> {0, 1}]
    /\ A0 = AttractorList(f)
    /\ SimNetwork
    /\ nb_sims = 1
    /\ depth \in Depths(f)
    /\ W \in Rates(f)
    /\ pc = "step"
    /\ sim = 0
    /\ C = zero_tally
    /\ result = <<>>
    /\ x = x0
    /\ A = <<>>
    /\ k = 1
    /\ ret = -1
    /\ filtered = FALSE
    /\ NewMemory
    /\ since = 0
    /\ trace = <<>>
    /\ last = NoStep
    /\ NoWorkers

CallStepNoop ==
    /\ pc = "step"
    /\ step_noop(TRUE)
    /\ pc' = "returned False"
    /\ UNCHANGED <<inputs, since, trace, sim, C, result, A, k, ret, filtered, parvars>>

CallStepSample ==
    /\ pc = "step"
    /\ step_sample(TRUE)
    /\ pc' = "returned True"
    /\ UNCHANGED <<inputs, since, trace, sim, C, result, A, k, ret, filtered, parvars>>

NextStep == CallStepNoop \/ CallStepSample

SpecStep == InitStep /\ [][NextStep]_vars

(***************************************************************************)
(* sample_trace, called with a new buffer.  The networks have fixed points *)
(* only (Automata18, LateLatch) or a cyclic attractor too (SwitchCycle).   *)
(***************************************************************************)
\* the longest trace followed
MaxTrace == 4

\* mutation of trace_continues: the loop stops once x is inside the hypercube
\* of the first candidate
trace_continues_outside(As, y) ==
    /\ Len(As) > 0
    /\ \E i \in DOMAIN As[1][2][1] : y[i] # As[1][2][1][i]

\* line 218: len(A) and x != A[0][1][0], the dictionary x compared with the
\* dictionary of the fixed coordinates of the first candidate
trace_continues(As, y) ==
    /\ Len(As) > 0
    /\ IF DOMAIN y = DOMAIN As[1][2][1]
         THEN \E i \in DOMAIN y : y[i] # As[1][2][1][i]
         ELSE TRUE

InitTrace ==
    /\ f \in {Automata18, SwitchCycle, LateLatch}
    /\ x0 \in [DOMAIN f -> {0, 1}]
    /\ A0 = AttractorList(f)
    /\ SimNetwork
    /\ nb_sims \in 1..MaxSims
    /\ depth \in Depths(f)
    /\ W \in Rates(f)
    /\ pc = "sample_trace"
    /\ sim = 0
    /\ C = zero_tally
    /\ result = <<>>
    /\ x = x0
    /\ A = <<>>
    /\ k = 1
    /\ ret = -1
    /\ filtered = FALSE
    /\ NewMemory
    /\ since = 0
    /\ trace = <<>>
    /\ last = NoStep
    /\ NoWorkers

\* lines 214-217: x = x.copy(); trace = [x.copy()]; the first filtering
TraceStart ==
    /\ pc = "sample_trace"
    /\ x' = x0
    /\ trace' = <<x0>>
    /\ A' = filter_reachable_attractors(f, EA, x0)
    /\ pc' = "trace while"
    /\ UNCHANGED <<inputs, mem, since, sim, C, result, k, ret, filtered, last, parvars>>

\* lines 218-221: one turn of the loop.  The value returned by step is not
\* read; x is appended and the filtering recomputed after every step.
TraceStep ==
    /\ pc = "trace while"
    /\ trace_continues(A, x)
    /\ Len(trace) < MaxTrace
    /\ \E o \in step_outcomes :
          /\ x' = o.post
          /\ mem' = IF o.noop THEN mem ELSE ensure_spaces(mem, o.spaces)
    /\ x0' = callers_x_after_write(x0, x')
    /\ trace' = Append(trace, x')
    /\ A' = filter_reachable_attractors(f, A, x')
    /\ UNCHANGED <<f, A0, nb_sims, depth, W, encoding, is_unate, since, pc, sim, C,
                   result, k, ret, filtered, last, parvars>>

\* line 222: return trace
TraceReturn ==
    /\ pc = "trace while"
    /\ ~trace_continues(A, x)
    /\ pc' = "returned sample_trace"
    /\ UNCHANGED <<inputs, runvars, sim, C, result, x, A, k, ret, filtered, last, parvars>>

NextTrace == TraceStart \/ TraceStep \/ TraceReturn

SpecTrace == InitTrace /\ [][NextTrace]_vars

(***************************************************************************)
(* What the runs share.  The caller hands its configuration, its attractor *)
(* list and one buffer either to the sequential estimator, for several     *)
(* runs, or to sample_trace.  On LateLatch the lists of transition spaces  *)
(* are longer than the buffer is at first.                                 *)
(***************************************************************************)
InitShared ==
    /\ f = LateLatch
    /\ x0 \in [DOMAIN f -> {0, 1}]
    /\ A0 = AttractorList(f)
    /\ SimNetwork
    /\ nb_sims \in 1..MaxSims
    /\ depth \in Depths(f)
    /\ W \in Rates(f)
    /\ pc \in {"for", "sample_trace"}
    /\ sim = 0
    /\ C = zero_tally
    /\ result = <<>>
    /\ x = x0
    /\ A = <<>>
    /\ k = 1
    /\ ret = -1
    /\ filtered = FALSE
    /\ NewMemory
    /\ since = 0
    /\ trace = <<>>
    /\ last = NoStep
    /\ NoWorkers

NextShared ==
    \/ StartRun \/ StepNoop \/ StepSample \/ Refresh \/ Return \/ Finish
    \/ TraceStart \/ TraceStep \/ TraceReturn

SpecShared == InitShared /\ [][NextShared]_vars

(***************************************************************************)
(* Calls of spread, reachable_spaces and is_subhypercube, observed: on     *)
(* any configuration, set of nodes, depth 0, 1, .. and iteration order.    *)
(* x is the dictionary handed to the call; last records the call.          *)
(***************************************************************************)
\* the orders in which the nodes of a network can be iterated
Orders(T) ==
    {s \in [1..Cardinality(T) -> T] : \A m, n \in 1..Cardinality(T) : s[m] = s[n] => m = n}

\* the hypercubes (y, G) with y a configuration over all the nodes, or over
\* the nodes outside G as convert_attractor builds them
cubes(y) ==
    {<<y, G>> : G \in SUBSET DOMAIN y}
        \cup {<<[i \in (DOMAIN y) \ G |-> y[i]], G>> : G \in SUBSET DOMAIN y}

InitCalls ==
    /\ f \in {Networks[i] : i \in 1..Len(Networks)}
    /\ x0 \in [DOMAIN f -> {0, 1}]
    /\ A0 = AttractorList(f)
    /\ SimNetwork
    /\ nb_sims = 1
    /\ depth \in {[callable |-> FALSE, d |-> dd] :
                     dd \in 0..(Cardinality(DOMAIN f) + ExtraDepth)}
    /\ W = uniform_rates(f)
    /\ pc = "call"
    /\ sim = 0
    /\ C = zero_tally
    /\ result = <<>>
    /\ x = x0
    /\ A = <<>>
    /\ k = 1
    /\ ret = -1
    /\ filtered = FALSE
    /\ NewMemory
    /\ since = 0
    /\ trace = <<>>
    /\ last = NoStep
    /\ NoWorkers

\* H = spread(f, x, I, d)
CallSpread ==
    /\ pc = "call"
    /\ \E I \in SUBSET DOMAIN f, order \in Orders(DOMAIN f) :
          LET c == spread_call(f, x, I, depth.d, order)
          IN  /\ last' = [op |-> "spread", I |-> I, d |-> depth.d, order |-> order,
                          ret |-> c.ret, rounds |-> c.rounds]
              /\ x' = c.x
    /\ pc' = "returned spread"
    /\ UNCHANGED <<inputs, runvars, sim, C, result, A, k, ret, filtered, parvars>>

\* S = reachable_spaces(f, x, d), twice in a row on the same x; the two
\* calls need not iterate their sets in the same order
CallReachableSpaces ==
    /\ pc = "call"
    /\ \E o1, o2 \in Orders(DOMAIN f) :
          last' = reachable_spaces_again(f, depth.d, o2,
                      reachable_spaces_call(f, x, depth.d, o1))
    /\ x' = last'.after
    /\ pc' = "returned reachable_spaces"
    /\ UNCHANGED <<inputs, runvars, sim, C, result, A, k, ret, filtered, parvars>>

\* is_subhypercube(a, b) for hypercubes around x and its neighbours
CallIsSubhypercube ==
    /\ pc = "call"
    /\ \E ca \in cubes(x) :
       \E cb \in {ca} \cup {<<flip(x, T), G>> :
                                T \in {{}} \cup {{i} : i \in DOMAIN f},
                                G \in SUBSET DOMAIN f} :
          last' = [op |-> "is_subhypercube", a |-> ca, b |-> cb,
                   ret |-> is_subhypercube(ca, cb)]
    /\ pc' = "returned is_subhypercube"
    /\ UNCHANGED <<inputs, runvars, sim, C, result, x, A, k, ret, filtered, parvars>>

\* can_flip(f, x, i, H, v) for any node, set of free nodes and value
CallCanFlip ==
    /\ pc = "call"
    /\ \E i \in DOMAIN f, H \in SUBSET DOMAIN f, v \in {0, 1} :
          /\ last' = [op |-> "can_flip", i |-> i, H |-> H, v |-> v,
                      ret |-> can_flip_call(f, x, i, H, v).ret]
          /\ x' = can_flip_call(f, x, i, H, v).x
    /\ pc' = "returned can_flip"
    /\ UNCHANGED <<inputs, runvars, sim, C, result, A, k, ret, filtered, parvars>>

\* L = irreversible(f, x, H) for any set H of nodes
CallIrreversible ==
    /\ pc = "call"
    /\ \E H \in SUBSET DOMAIN f, order \in Orders(DOMAIN f) :
          /\ last' = [op |-> "irreversible", H |-> H,
                      ret |-> irreversible_call(f, x, H, order).ret]
          /\ x' = irreversible_call(f, x, H, order).x
    /\ pc' = "returned irreversible"
    /\ UNCHANGED <<inputs, runvars, sim, C, result, A, k, ret, filtered, parvars>>

NextCalls ==
    \/ CallSpread
    \/ CallReachableSpaces
    \/ CallIsSubhypercube
    \/ CallCanFlip
    \/ CallIrreversible

SpecCalls == InitCalls /\ [][NextCalls]_vars

(***************************************************************************)
(* Construction of a network: assignments to an MPBooleanNetwork of any    *)
(* encoding, then MPBNSim(f), as the estimators do first.  An exception    *)
(* raised by an assignment is caught by the caller (the network stays as   *)
(* it was); one raised by MPBNSim(f) ends the estimator.                   *)
(***************************************************************************)
InitInput ==
    /\ f = <<>>
    /\ encoding \in Encodings
    /\ is_unate = <<>>
    /\ x0 = <<>>
    /\ A0 = <<>>
    /\ nb_sims = 1
    /\ depth = [callable |-> FALSE, d |-> 1]
    /\ W = [num |-> <<>>, den |-> 1]
    /\ pc = "network"
    /\ sim = 0
    /\ C = zero_tally
    /\ result = <<>>
    /\ x = x0
    /\ A = <<>>
    /\ k = 1
    /\ ret = -1
    /\ filtered = FALSE
    /\ NewMemory
    /\ since = 0
    /\ trace = <<>>
    /\ last = NoStep
    /\ NoWorkers

\* MPBooleanNetwork.__setitem__(a, f), lines 209-227
SetItem ==
    /\ pc = "network"
    /\ \E key \in Components, fm \in Formulas :
       \E dnf \in dnf_outcomes(encoding, fm) :
          LET raised == setitem_raises(encoding, dnf)
          IN  /\ is_unate' = IF encoding \in dnf_encodings
                               THEN store(is_unate, key, is_dnf_unate(dnf))
                               ELSE is_unate
              /\ f' = IF raised THEN f ELSE store(f, key, dnf)
              /\ last' = [op |-> "__setitem__", a |-> key, fm |-> fm, dnf |-> dnf,
                          before |-> f, raised |-> raised]
    /\ pc' = "network"
    /\ UNCHANGED <<x0, A0, nb_sims, depth, W, encoding, runvars, sim, C, result, x, A, k,
                   ret, filtered, parvars>>

\* f = MPBNSim(f), lines 19-20: every function of f is assigned to a new
\* network of encoding sim_encoding; the first assignment that raises ends the
\* construction
BuildSim ==
    /\ pc = "network"
    /\ DOMAIN f # {}
    /\ \E g \in [DOMAIN f -> UNION {dnf_outcomes(sim_encoding, f[i]) : i \in DOMAIN f}] :
          /\ \A i \in DOMAIN f : g[i] \in dnf_outcomes(sim_encoding, f[i])
          /\ LET raised == \E i \in DOMAIN f : setitem_raises(sim_encoding, g[i])
              IN  /\ f' = IF raised THEN f ELSE g
                  /\ encoding' = IF raised THEN encoding ELSE sim_encoding
                  /\ is_unate' = IF raised THEN is_unate
                                   ELSE [i \in DOMAIN f |-> is_dnf_unate(g[i])]
                  /\ pc' = IF raised THEN "AssertionError" ELSE "sim built"
                  /\ last' = [op |-> "MPBNSim", before |-> f, raised |-> raised]
    /\ UNCHANGED <<x0, A0, nb_sims, depth, W, runvars, sim, C, result, x, A, k,
                   ret, filtered, parvars>>

NextInput == SetItem \/ BuildSim

SpecInput == InitInput /\ [][NextInput]_vars

(***************************************************************************)
(* parallel_estimate_reachable_attractors_probabilities                    *)
(*                                                                         *)
(* The coordinator (pc) starts the workers one after the other, reads      *)
(* nb_sims progress signals from q, joins the workers in order, then reads *)
(* nb_jobs tallies from r.  A worker (wpc) runs its share, putting one     *)
(* identifier on q after each run, puts its tally on r and exits.  put()   *)
(* on a full pipe and get() on an empty one block.  A run inside a worker  *)
(* is one step: it returns one of the candidates of the first filtering.   *)
(***************************************************************************)
\* mutation of shares: the remainder is given to the first worker
shares_remainder_first(n, jobs) ==
    [i \in 1..jobs |-> (n \div jobs) + (IF i = 1 THEN n % jobs ELSE 0)]

\* lines 288-290: w_nb_sims = [nb_sims // nb_jobs] * nb_jobs, the first
\* nb_sims % nb_jobs shares incremented
shares(n, jobs) ==
    [i \in 1..jobs |-> (n \div jobs) + (IF i - 1 < n % jobs THEN 1 ELSE 0)]

\* the identifiers a run of sample_reachable_attractor(f, mem, x, A, ..) can
\* return: those left by the filtering of line 195
run_outcomes == LET F0 == filter_reachable_attractors(f, EA, x0)
                IN  {F0[n][1] : n \in 1..Len(F0)}

\* x0 = f.zero(), as cli/sim.py starts the estimator
InitPar ==
    /\ f \in {Networks[i] : i \in 1..NumNetworks}
    /\ x0 = [i \in DOMAIN f |-> 0]
    /\ A0 = AttractorList(f)
    /\ SimNetwork
    /\ nb_sims \in 1..MaxParSims
    /\ depth = constant_maximum_depth(f)
    /\ W = uniform_rates(f)
    /\ pc = "start"
    /\ sim = 0
    /\ C = zero_tally
    /\ result = <<>>
    /\ x = x0
    /\ A = <<>>
    /\ k = 1
    /\ ret = -1
    /\ filtered = FALSE
    /\ NewMemory
    /\ since = 0
    /\ trace = <<>>
    /\ last = NoStep
    /\ nb_jobs \in 1..MaxJobs
    /\ w_nb_sims = shares(nb_sims, nb_jobs)
    /\ wpc = [w \in 1..nb_jobs |-> "created"]
    /\ wC = [w \in 1..nb_jobs |-> zero_tally]
    /\ wi = [w \in 1..nb_jobs |-> 0]
    /\ wia = [w \in 1..nb_jobs |-> -1]
    /\ q = <<>>
    /\ r = <<>>
    /\ ci = 1
    /\ outcomes = zero_tally

frame_par == UNCHANGED <<inputs, runvars, sim, x, A, k, ret, filtered, last, nb_jobs, w_nb_sims>>

\* lines 293-294: for p in procs: p.start()
StartWorker ==
    /\ pc = "start"
    /\ wpc' = [wpc EXCEPT ![ci] = "for"]
    /\ IF ci = nb_jobs THEN pc' = "progress" /\ ci' = 0
                       ELSE pc' = pc /\ ci' = ci + 1
    /\ UNCHANGED <<C, result, wC, wi, wia, q, r, outcomes>>
    /\ frame_par

\* lines 281-283: one run of worker w and its tally
WorkerRun(w) ==
    /\ wpc[w] = "for"
    /\ wi[w] < w_nb_sims[w]
    /\ \E ia \in run_outcomes :
          /\ wia' = [wia EXCEPT ![w] = ia]
          /\ wC' = [wC EXCEPT ![w][ia] = @ + 1]
          /\ outcomes' = [outcomes EXCEPT ![ia] = @ + 1]
    /\ wpc' = [wpc EXCEPT ![w] = "put q"]
    /\ UNCHANGED <<pc, C, result, wi, q, r, ci>>
    /\ frame_par

\* line 284: q.put(ia), blocking while the pipe is full
WorkerSignal(w) ==
    /\ wpc[w] = "put q"
    /\ Len(q) < QCap
    /\ q' = Append(q, wia[w])
    /\ wi' = [wi EXCEPT ![w] = @ + 1]
    /\ wpc' = [wpc EXCEPT ![w] = "for"]
    /\ UNCHANGED <<pc, C, result, wC, wia, r, ci, outcomes>>
    /\ frame_par

\* line 285: r.put(C), blocking while the pipe is full; the process then exits
WorkerResult(w) ==
    /\ wpc[w] = "for"
    /\ wi[w] = w_nb_sims[w]
    /\ Len(r) < RCap
    /\ r' = Append(r, wC[w])
    /\ wpc' = [wpc EXCEPT ![w] = "exited"]
    /\ UNCHANGED <<pc, C, result, wC, wi, wia, q, ci, outcomes>>
    /\ frame_par

\* an exception in the worker (e.g. raised by a run): the process ends, its
\* remaining signals and its tally are never sent
WorkerCrash(w) ==
    /\ wpc[w] \in {"for", "put q"}
    /\ wpc' = [wpc EXCEPT ![w] = "crashed"]
    /\ UNCHANGED <<pc, C, result, wC, wi, wia, q, r, ci, outcomes>>
    /\ frame_par

\* a run that never converges: the worker stays in line 282 for ever
WorkerStall(w) ==
    /\ wpc[w] = "for"
    /\ wi[w] < w_nb_sims[w]
    /\ wpc' = [wpc EXCEPT ![w] = "stalled"]
    /\ UNCHANGED <<pc, C, result, wC, wi, wia, q, r, ci, outcomes>>
    /\ frame_par

\* mutation of Progress: the coordinator counts without waiting for a signal
Progress_polling ==
    /\ pc = "progress"
    /\ q' = IF q # <<>> THEN Tail(q) ELSE q
    /\ IF ci + 1 = nb_sims THEN pc' = "join" /\ ci' = 1
                           ELSE pc' = pc /\ ci' = ci + 1
    /\ UNCHANGED <<C, result, wpc, wC, wi, wia, r, outcomes>>
    /\ frame_par

\* lines 295-296: q.get(), blocking while the pipe is empty; nb_sims times
Progress ==
    /\ pc = "progress"
    /\ q # <<>>
    /\ q' = Tail(q)
    /\ IF ci + 1 = nb_sims THEN pc' = "join" /\ ci' = 1
                           ELSE pc' = pc /\ ci' = ci + 1
    /\ UNCHANGED <<C, result, wpc, wC, wi, wia, r, outcomes>>
    /\ frame_par

\* mutation of Join: the coordinator does not wait for the processes to end
Join_without_waiting ==
    /\ pc = "join"
    /\ IF ci = nb_jobs THEN pc' = "combine" /\ ci' = 0 /\ C' = zero_tally
                       ELSE pc' = pc /\ ci' = ci + 1 /\ C' = C
    /\ UNCHANGED <<result, wpc, wC, wi, wia, q, r, outcomes>>
    /\ frame_par

\* lines 297-298: p.join(), blocking until the process has ended; line 301
Join ==
    /\ pc = "join"
    /\ wpc[ci] \in {"exited", "crashed"}
    /\ IF ci = nb_jobs THEN pc' = "combine" /\ ci' = 0 /\ C' = zero_tally
                       ELSE pc' = pc /\ ci' = ci + 1 /\ C' = C
    /\ UNCHANGED <<result, wpc, wC, wi, wia, q, r, outcomes>>
    /\ frame_par

\* mutation of add_tally: C[ia] = c
add_tally_overwrite(Cs, Cr) ==
    [ia \in DOMAIN Cs |-> IF ia \in DOMAIN Cr THEN Cr[ia] ELSE Cs[ia]]

\* for (ia, c) in Cr.items(): C[ia] += c
add_tally(Cs, Cr) == [ia \in DOMAIN Cs |-> Cs[ia] + (IF ia \in DOMAIN Cr THEN Cr[ia] ELSE 0)]

\* lines 302-305: Cr = r.get(), blocking while the pipe is empty; nb_jobs times
Combine ==
    /\ pc = "combine"
    /\ r # <<>>
    /\ r' = Tail(r)
    /\ C' = add_tally(C, Head(r))
    /\ IF ci + 1 = nb_jobs THEN pc' = "percent" /\ ci' = 0
                           ELSE pc' = pc /\ ci' = ci + 1
    /\ UNCHANGED <<result, wpc, wC, wi, wia, q, outcomes>>
    /\ frame_par

\* mutation of FinishPar: the division is by the share of a worker
FinishPar_by_share ==
    /\ pc = "percent"
    /\ result' = percentages(EA, C, w_nb_sims[1])
    /\ pc' = "done"
    /\ UNCHANGED <<C, wpc, wC, wi, wia, q, r, ci, outcomes>>
    /\ frame_par

\* lines 306-308
FinishPar ==
    /\ pc = "percent"
    /\ result' = percentages(EA, C, nb_sims)
    /\ pc' = "done"
    /\ UNCHANGED <<C, wpc, wC, wi, wia, q, r, ci, outcomes>>
    /\ frame_par

NextPar ==
    \/ StartWorker
    \/ \E w \in 1..nb_jobs : WorkerRun(w)
    \/ \E w \in 1..nb_jobs : WorkerSignal(w)
    \/ \E w \in 1..nb_jobs : WorkerResult(w)
    \/ \E w \in 1..nb_jobs : WorkerCrash(w)
    \/ \E w \in 1..nb_jobs : WorkerStall(w)
    \/ Progress
    \/ Join
    \/ Combine
    \/ FinishPar

SpecPar == InitPar /\ [][NextPar]_vars

(***************************************************************************)
(* Properties                                                              *)
(***************************************************************************)
RECURSIVE tally_sum(_, _)
tally_sum(Cs, D) ==
    IF D = {} THEN 0
    ELSE LET ia == CHOOSE e \in D : TRUE IN Cs[ia] + tally_sum(Cs, D \ {ia})

\* the hypercube (x, spread(x, all nodes, n)) the filtering compares with
reachable_cube == <<x, spread(f, x, DOMAIN f, Cardinality(DOMAIN f))>>

\* C1: sample_reachable_attractor returns only right after a filtering that
\* leaves exactly one candidate: whenever the while loop can be left the last
\* operation was a filtering, and once a run has returned (the estimator is
\* back at its for loop or done) the candidate list holds exactly one
\* candidate, the identifier returned is its identifier, and its hypercube is
\* a sub-hypercube of (x, spread(x, all nodes, n)) for the final x of the run.
C1_ReturnsSingleFilteredCandidate ==
    /\ (pc = "while" /\ Len(A) <= 1) => filtered
    /\ (pc \in {"for", "done"} /\ sim > 0) =>
          /\ filtered
          /\ Len(A) = 1
          /\ ret = A[1][1]
          /\ is_subhypercube(A[1][2], reachable_cube)

\* a run that started with two candidates, moved, and returned
C1_Witness ==
    /\ pc = "for"
    /\ sim = 1
    /\ x # x0
    /\ Len(filter_reachable_attractors(f, EA, x0)) = 2
    /\ Len(A) = 1

\* C2: every run of sample_reachable_attractor that starts with at least two
\* compatible attractors eventually returns, with exactly one candidate left,
\* when the sampled transitions are chosen fairly.
C2_RunConverges ==
    (pc = "while" /\ Len(A) >= 2) ~> (pc = "for" /\ sim = 1 /\ Len(A) = 1)

Automata18_zero == [a |-> 0, b |-> 0, c |-> 0]
Automata18_case ==
    /\ f = Automata18
    /\ A0 = <<[a |-> 0, b |-> 1, c |-> 1], [a |-> 1, b |-> 0, c |-> 0]>>
    /\ x0 = Automata18_zero
    /\ W = fully_asynchronous_rates(f)
    /\ depth = constant_maximum_depth(f)

\* C3: for the networks (all monotone) and their complete attractor lists, an
\* attractor passes filter_reachable_attractors at a configuration x exactly
\* when it is reachable from x under the most-permissive dynamics; in
\* a = !b, b = !a, c = !a & b both attractors pass from {a:0,b:0,c:0} and only
\* {a:0,b:1,c:1} passes from {a:0,b:1,c:0}.  The reference dynamics gives the
\* reachability facts of tests/test_reachability.py.
C3_FilterIsMPReachability ==
    pc = "step" =>
        LET passing == filter_reachable_attractors(f, EA, x)
            passes(e) == \E n \in 1..Len(passing) : passing[n] = e
        IN  /\ \A n \in 1..Len(EA) :
                  passes(EA[n]) <=> mp_reaches_attractor(f, x, EA[n][2])
            /\ (f = Automata18 /\ x = Automata18_zero) =>
                  /\ passing = EA
                  /\ [a |-> 1, b |-> 1, c |-> 1] \in mp_reachable(f, x)
                  /\ [a |-> 0, b |-> 1, c |-> 0] \in mp_reachable(f, x)
            /\ (f = Automata18 /\ x = [a |-> 0, b |-> 1, c |-> 0]) =>
                  /\ passing = <<<<0, <<[a |-> 0, b |-> 1, c |-> 1], {}>>>>>>
                  /\ [a |-> 1, b |-> 0, c |-> 0] \notin mp_reachable(f, x)

\* a configuration outside the attractors from which one attractor is
\* reachable and passes, and another is unreachable and does not pass
C3_Witness ==
    /\ pc = "step"
    /\ f = Automata18
    /\ x = [a |-> 0, b |-> 1, c |-> 0]
    /\ Len(filter_reachable_attractors(f, EA, x)) = 1
    /\ mp_reaches_attractor(f, x, EA[1][2])
    /\ ~mp_reaches_attractor(f, x, EA[2][2])

\* C4: in a = !b, b = !a, c = !a & b with the attractors {a:0,b:1,c:1} and
\* {a:1,b:0,c:0}, from {a:0,b:0,c:0} with fully-asynchronous rates and maximum
\* depth, both attractors are candidates of every run, every run that returns
\* returns identifier 0 or 1, and the percentages returned add up to 100.
C4_Automata18BothAttractors ==
    Automata18_case =>
        /\ pc = "while" => (x = x0 => Len(A) = 2)
        /\ sim > 0 => ret \in {0, 1}
        /\ pc = "done" =>
              /\ result[0][2] = nb_sims /\ result[1][2] = nb_sims
              /\ result[0][1] + result[1][1] = 100 * nb_sims

\* two runs of the case of C4, one converged to each attractor
C4_Witness ==
    /\ Automata18_case
    /\ pc = "done"
    /\ nb_sims = 2
    /\ result[0] = <<100, 2>>
    /\ result[1] = <<100, 2>>

C10_FlippedSet ==
    pc = "returned True" =>
        /\ last.pre = x0
        /\ last.post = x
        /\ last.L \subseteq last.flipped
        /\ last.flipped \subseteq last.H \cup last.L
        /\ 1 <= Cardinality(last.flipped)
        /\ Cardinality(last.flipped) <= Cardinality(last.H) + Cardinality(last.L)
        /\ \A i \in DOMAIN f :
              x[i] = IF i \in last.flipped THEN 1 - x0[i] ELSE x0[i]

\* a call that flipped all of a non-empty L and part of a non-empty H
C10_Witness ==
    /\ pc = "returned True"
    /\ last.L # {}
    /\ last.H # {}
    /\ last.L # last.flipped
    /\ last.flipped # last.H \cup last.L

\* C11: whenever reachable_spaces returns a non-empty list and the rates come
\* from the catalogue, the total activity sample_configuration computes is
\* strictly positive at every depth, so that every call selects a cell and
\* flips at least one node: step never stops short of an outcome.
C11_PositiveTotalWeight ==
    /\ pc = "step" =>
          \A d \in resolve_depth(f, depth) :
              LET S  == reachable_spaces(f, x, d)
                  n  == Cardinality(DOMAIN f)
                  R  == flat_activity(S, W.num, n)
                  cs == cumsum(R)
              IN  S # <<>> =>
                      /\ total_activity(cs) > 0
                      /\ draws(R, cs) # {}
                      /\ \A draw \in draws(R, cs) :
                             LET cell == select_cell(cs, n, draw)
                             IN  /\ cell[1] \in 1..Len(S)
                                 /\ activity(S, W.num, cell[1], cell[2]) > 0
                      /\ sample_outcomes(x, S, W.num) # {}
    /\ pc = "returned True" => last.m >= 1 /\ last.flipped # {}

\* a call with fully-asynchronous rates whose first space has two
\* irreversible nodes, so no activity: the cell came from a later space
C11_Witness ==
    /\ pc = "returned True"
    /\ W = fully_asynchronous_rates(f)
    /\ \E d \in resolve_depth(f, depth) :
          LET S == reachable_spaces(f, x0, d)
          IN  /\ Len(S) > 1
              /\ Cardinality(S[1][2]) >= 2
              /\ \A m \in 1..Cardinality(DOMAIN f) : activity(S, W.num, 1, m) = 0
    /\ last.m = 1

\* C12: with depth fixed to 1 and fully-asynchronous rates every step that is
\* not a no-op flips exactly one node: the configurations before and after
\* the step differ in exactly one coordinate.
C12_SingleFlip ==
    (/\ pc = "returned True"
     /\ depth = constant_unitary_depth(f)
     /\ W = fully_asynchronous_rates(f)) =>
        /\ Cardinality(last.flipped) = 1
        /\ last.L = {}
        /\ Cardinality({i \in DOMAIN f : x[i] # x0[i]}) = 1

\* a single flip taken where two nodes could flip at once
C12_Witness ==
    /\ pc = "returned True"
    /\ depth = constant_unitary_depth(f)
    /\ W = fully_asynchronous_rates(f)
    /\ Cardinality(last.H) >= 2
    /\ Cardinality({i \in DOMAIN f : x[i] # x0[i]}) = 1

\* the set of the spaces a list holds
spaces_of(S) == {S[n] : n \in 1..Len(S)}

\* C13: spread(f, x, I, d) performs at most d propagation rounds and returns
\* a subset of I, for every configuration x, candidate set I and d >= 0; it
\* leaves x as it was, and what it returns does not depend on the order in
\* which I is iterated.
C13_SpreadBounded ==
    pc = "returned spread" =>
        /\ last.d >= 0
        /\ last.rounds <= last.d
        /\ last.ret \subseteq last.I
        /\ last.ret = spread(f, x0, last.I, last.d)
        /\ x = x0

\* a call that the depth bound stopped: it used all its d >= 2 rounds, and
\* one more round would have returned more nodes of I
C13_Witness ==
    /\ pc = "returned spread"
    /\ last.d >= 2
    /\ last.rounds = last.d
    /\ last.ret # last.I
    /\ spread(f, x0, last.I, last.d + 1) # last.ret

\* C14: reachable_spaces terminates: it pops each candidate set from the
\* queue at most once, so it processes at most 2^n sets of nodes, and it
\* appends at most one space per set processed.
C14_EachSetProcessedOnce ==
    pc = "returned reachable_spaces" =>
        /\ \A m, n \in 1..Len(last.processed) :
              last.processed[m] = last.processed[n] => m = n
        /\ \A n \in 1..Len(last.processed) : last.processed[n] \subseteq DOMAIN f
        /\ Len(last.processed) <= power(2, Cardinality(DOMAIN f))
        /\ Len(last.first) <= Len(last.processed)
        /\ last.processed[1] = DOMAIN f

\* a call in which a set was reached a second time and not enqueued again:
\* two sets processed have irreversible nodes whose removal gives the same set
C14_Witness ==
    /\ pc = "returned reachable_spaces"
    /\ Len(last.processed) >= 4
    /\ \E m, n \in 1..Len(last.processed) :
          /\ m < n
          /\ LET Lm == irreversible(f, x0, spread(f, x0, last.processed[m], last.d))
                  Ln == irreversible(f, x0, spread(f, x0, last.processed[n], last.d))
              IN  \E Mm \in (SUBSET Lm) \ {{}}, Mn \in (SUBSET Ln) \ {{}} :
                      last.processed[m] \ Mm = last.processed[n] \ Mn

\* C15: reachable_spaces does not modify x, and called twice on the same x
\* with the same depth it returns the same set of spaces (H, L), whatever
\* the order in which each call iterates its sets.
C15_ReachableSpacesIdempotent ==
    pc = "returned reachable_spaces" =>
        /\ last.between = x0
        /\ x = x0
        /\ spaces_of(last.first) = spaces_of(last.second)
        /\ Len(last.first) = Len(last.second)
        /\ spaces_of(last.first) = spaces_of(reachable_spaces(f, x0, last.d))

\* two calls that returned the same spaces in different orders
C15_Witness ==
    /\ pc = "returned reachable_spaces"
    /\ x = x0
    /\ Len(last.first) >= 3
    /\ last.first # last.second
    /\ spaces_of(last.first) = spaces_of(last.second)

\* C16: hypercube compatibility is reflexive: is_subhypercube((x, H), (x, H))
\* is true for every configuration x, over all the nodes or over the nodes
\* outside H, and every set H of free nodes.
C16_SubhypercubeReflexive ==
    (pc = "returned is_subhypercube" /\ last.a = last.b) => last.ret

\* a hypercube with free and fixed nodes compared with itself
C16_Witness ==
    /\ pc = "returned is_subhypercube"
    /\ last.a = last.b
    /\ last.a[2] # {}
    /\ last.a[2] # DOMAIN f
    /\ DOMAIN last.a[1] = DOMAIN f \ last.a[2]
    /\ last.ret

\* the function of fm is not monotone: it increases with some symbol at one
\* valuation and decreases with the same symbol at another
non_monotone(fm) ==
    \E j \in symbols(fm) :
        \E u, v \in [symbols(fm) -> {0, 1}] :
            /\ u[j] = 0 /\ v[j] = 0
            /\ ~eval_formula(fm, u) /\ eval_formula(fm, [u EXCEPT ![j] = 1])
            /\ eval_formula(fm, v) /\ ~eval_formula(fm, [v EXCEPT ![j] = 1])

\* two formulas of the same function
equivalent(fa, fb) ==
    \A v \in [symbols(fa) \cup symbols(fb) -> {0, 1}] :
        eval_formula(fa, v) <=> eval_formula(fb, v)

\* an assignment has been made to the network under construction
assigned == pc = "network" /\ last # NoStep

\* MPBNSim(f) has been called
sim_called == pc \in {"sim built", "AssertionError"}

\* C17: assigning a non-unate function, such as (b&!c)|(!b&c), to a component
\* of a network of encoding "unate-dnf" raises AssertionError and leaves the
\* functions of the network as they were; the same assignment to a network
\* of the default encoding raises nothing and stores the function.  An
\* assignment raises only for encoding "unate-dnf" and a formula in which a
\* symbol has both polarities.
C17_NonUnateAssignmentRaises ==
    assigned =>
        /\ last.raised <=> (encoding = "unate-dnf" /\ ~is_dnf_unate(last.dnf))
        /\ non_monotone(last.fm) => ~is_dnf_unate(last.dnf)
        /\ (non_monotone(last.fm) /\ encoding = "unate-dnf") => last.raised
        /\ last.raised => f = last.before
        /\ encoding = DEFAULT_ENCODING =>
              /\ ~last.raised
              /\ last.a \in DOMAIN f
              /\ f[last.a] = last.dnf
              /\ equivalent(f[last.a], last.fm)
              /\ is_unate[last.a] = is_dnf_unate(last.dnf)
        /\ ~last.raised => f = store(last.before, last.a, last.dnf)

\* (b&!c)|(!b&c) assigned, with encoding "unate-dnf", to a component that has
\* a function: AssertionError, and the component keeps its function
C17_Witness ==
    /\ assigned
    /\ encoding = "unate-dnf"
    /\ last.fm = Xor
    /\ last.raised
    /\ last.a \in DOMAIN f
    /\ f[last.a] # Xor
    /\ f = last.before

\* C18 as claimed: building the simulation network from a network that
\* holds a non-monotone function raises no error.
C18_NoMonotonicityCheck ==
    (sim_called /\ \E i \in DOMAIN last.before : non_monotone(last.before[i]))
        => pc = "sim built"

\* C18 as amended: MPBNSim(f) assigns every function of f to a network of
\* encoding "unate-dnf": it raises AssertionError when f holds a non-monotone
\* function, and the simulation network exists only with functions that are
\* all unate, hence monotone.
C18_SimRejectsNonMonotone ==
    sim_called =>
        /\ (\E i \in DOMAIN last.before : non_monotone(last.before[i]))
              => pc = "AssertionError"
        /\ pc = "AssertionError" <=> last.raised
        /\ pc = "AssertionError" => f = last.before
        /\ pc = "sim built" =>
              /\ SimNetwork
              /\ DOMAIN f = DOMAIN last.before
              /\ \A i \in DOMAIN f :
                    /\ is_dnf_unate(f[i])
                    /\ ~non_monotone(f[i])
                    /\ equivalent(f[i], last.before[i])

\* MPBNSim(f) raising on a network of the default encoding that holds
\* (b&!c)|(!b&c) beside a unate function
C18_Witness ==
    /\ pc = "AssertionError"
    /\ encoding = DEFAULT_ENCODING
    /\ DOMAIN f = {"a", "b"}
    /\ f["a"] = Xor
    /\ is_dnf_unate(f["b"])

\* s is a sub-list of t: the elements of s are elements of t, in the same order
sublist(s, t) ==
    \E g \in [1..Len(s) -> 1..Len(t)] :
        /\ \A m, n \in 1..Len(s) : m < n => g[m] < g[n]
        /\ \A n \in 1..Len(s) : s[n] = t[g[n]]

in_run == pc \in {"while", "refresh"}

\* C19: within a run of sample_reachable_attractor the candidate list never
\* grows: every operation of the run leaves a sub-list of the candidate list
\* it found, and the candidates are at any moment a sub-list of the first
\* filtering, so an attractor once removed is never a candidate again.
C19_CandidatesNonIncreasing ==
    /\ [][in_run => sublist(A', A)]_vars
    /\ [](in_run => sublist(A, filter_reachable_attractors(f, EA, x0)))

\* a run that started with three candidates and goes on with two
C19_Witness ==
    /\ pc = "while"
    /\ Len(filter_reachable_attractors(f, EA, x0)) = 3
    /\ Len(A) = 2
    /\ x # x0

\* C20: at every point of a run on a monotone network with depth <= n,
\* between two filterings as well, every attractor of the initial list whose
\* hypercube is compatible with (x, spread(x, all nodes, n)) for the current
\* configuration x is in the candidate list.
C20_ReachableStaysCandidate ==
    in_run =>
        /\ \A d \in resolve_depth(f, depth) : d <= Cardinality(DOMAIN f)
        /\ \A n \in 1..Len(EA) :
              is_subhypercube(EA[n][2], reachable_cube)
                  => \E m \in 1..Len(A) : A[m] = EA[n]

\* between two filterings: the run has moved to a configuration from which
\* two of its three candidates are reachable
C20_Witness ==
    /\ pc = "while"
    /\ ~filtered
    /\ Len(A) = 3
    /\ Cardinality({n \in 1..Len(EA) : is_subhypercube(EA[n][2], reachable_cube)}) = 2

\* the nodes that can flip from a configuration y at the depth of the
\* filtering: spread(y, all nodes, n)
region(y) == spread(f, y, DOMAIN f, Cardinality(DOMAIN f))

\* C21: for the networks (all monotone) and every depth of the catalogues
\* (all <= n), a step that changes x0 into x changes only nodes of
\* spread(x0, all nodes, n), spread(x, all nodes, n) is a subset of
\* spread(x0, all nodes, n), and the hypercube (x, spread(x, all nodes, n)) is
\* a sub-hypercube of (x0, spread(x0, all nodes, n)).
C21_StepShrinksRegion ==
    pc = "returned True" =>
        /\ \A d \in resolve_depth(f, depth) : d <= Cardinality(DOMAIN f)
        /\ {i \in DOMAIN f : x[i] # x0[i]} \subseteq region(x0)
        /\ region(x) \subseteq region(x0)
        /\ is_subhypercube(<<x, region(x)>>, <<x0, region(x0)>>)

\* a step of several flips after which fewer nodes can flip, but some still
C21_Witness ==
    /\ pc = "returned True"
    /\ Cardinality(last.flipped) >= 2
    /\ region(x) # region(x0)
    /\ region(x) # {}

\* C22: with the complete list of attractors of the network (monotone), the
\* candidate list of sample_reachable_attractor is never empty after a
\* filtering, the first of a run or a later one: a run always has a
\* candidate, and when the loop is left (no more than one candidate) the
\* access A[0][0] finds exactly one.
C22_CandidatesNeverEmpty ==
    /\ pc \in {"while", "refresh"} => Len(A) >= 1
    /\ filter_reachable_attractors(f, EA, x) # <<>>
    /\ (pc = "while" /\ Len(A) <= 1) => (Len(A) = 1 /\ A[1][1] \in Ids)

\* a run in which a later filtering has removed candidates, leaving one
C22_Witness ==
    /\ pc = "while"
    /\ filtered
    /\ x # x0
    /\ Len(filter_reachable_attractors(f, EA, x0)) = 3
    /\ Len(A) = 1

\* the configurations of the hypercube (y, G): those that agree with y on
\* every node outside G
hypercube(y, G) == {z \in [DOMAIN y -> {0, 1}] : \A j \in (DOMAIN y) \ G : z[j] = y[j]}

\* C23: for the networks (locally monotone), can_flip(f, x, i, H, v) is true
\* if and only if some configuration z that agrees with x on every node
\* outside H gives the formula of i a value different from v: testing the
\* one extreme configuration amounts to testing the whole hypercube (x, H).
C23_CanFlipIsExistential ==
    pc = "returned can_flip" =>
        /\ last.ret <=> \E z \in hypercube(x0, last.H) :
                            local_eval(f, last.i, z) # (last.v = 1)
        /\ x = x0

\* a call that answers yes although neither x nor any configuration with one
\* free node changed gives the other value, with a negative dependency free
C23_Witness ==
    /\ pc = "returned can_flip"
    /\ last.ret
    /\ local_eval(f, last.i, x0) = (last.v = 1)
    /\ \A j \in last.H : local_eval(f, last.i, flip(x0, {j})) = (last.v = 1)
    /\ last.H \cap deps(f, last.i, -1) # {}

\* the configuration of the hypercube (y, G) most favourable to node i
\* taking the value val: the free nodes on which i depends positively are
\* at val, those on which it depends negatively at 1 - val
favourable(y, i, G, val) ==
    [j \in DOMAIN y |->
        IF j \in G /\ j \in deps(f, i, -1) THEN 1 - val
        ELSE IF j \in G /\ j \in deps(f, i, 1) THEN val
        ELSE y[j]]

\* C24: irreversible(f, x, H) returns exactly the nodes i of H whose formula,
\* evaluated at the extreme configuration of (x, H) most favourable to the
\* original value x[i], still differs from x[i] (so that no configuration of
\* the hypercube gives x[i] back); the result is a subset of H.
C24_IrreversibleIsExtremeTest ==
    pc = "returned irreversible" =>
        /\ last.ret \subseteq last.H
        /\ last.ret = {i \in last.H :
               local_eval(f, i, favourable(x0, i, last.H, x0[i])) # (x0[i] = 1)}
        /\ \A i \in last.ret : \A z \in hypercube(x0, last.H) :
               local_eval(f, i, z) # (x0[i] = 1)
        /\ x = x0

\* a call on nodes that can all flip, some of which can come back and some
\* of which cannot
C24_Witness ==
    /\ pc = "returned irreversible"
    /\ last.H = spread(f, x0, DOMAIN f, Cardinality(DOMAIN f))
    /\ Cardinality(last.H) >= 3
    /\ last.ret # {}
    /\ last.ret # last.H

\* the sets of nodes that the calls of sample_configuration selecting the
\* space <<H, L>> can flip
flipped_with(outs, H, L) == {o.flipped : o \in {e \in outs : e.H = H /\ e.L = L}}

\* C25 as stated: a space with non-empty L has weight at the multiplicity
\* |L| only, and whenever it is selected exactly the nodes of L are flipped
\* and no node of H.
C25_OnlyLFlipped ==
    /\ pc = "step" =>
          \A d \in resolve_depth(f, depth) :
              LET S == reachable_spaces(f, x, d)
              IN  \A s \in 1..Len(S) : \A m \in 1..Cardinality(DOMAIN f) :
                      (S[s][2] # {} /\ m # Cardinality(S[s][2])) =>
                          multiplicity(S, s, m) = 0
    /\ (pc = "returned True" /\ last.L # {}) =>
          /\ last.m = Cardinality(last.L)
          /\ last.flipped = last.L

\* C25, amended: a space (H, L) with non-empty L has weight 1 at the
\* multiplicity |L| and weight binomial(|H|, j) at each multiplicity |L| + j,
\* j = 1..|H| (the number of ways to add j nodes of H to L), before the
\* rates are applied, and none elsewhere; whenever it is selected with
\* multiplicity m, all the nodes of L are flipped together with m - |L|
\* nodes of H, and every such set can be flipped when its size has a
\* non-zero rate.
C25_LWithPartOfH ==
    /\ pc = "step" =>
          \A d \in resolve_depth(f, depth) :
              LET S    == reachable_spaces(f, x, d)
                  outs == sample_outcomes(x, S, W.num)
              IN  \A s \in 1..Len(S) :
                      S[s][2] # {} =>
                          /\ \A m \in 1..Cardinality(DOMAIN f) :
                                 multiplicity(S, s, m) =
                                     Cardinality({T \in SUBSET S[s][1] :
                                         Cardinality(S[s][2]) + Cardinality(T) = m})
                          /\ flipped_with(outs, S[s][1], S[s][2]) =
                                 {S[s][2] \cup T : T \in {U \in SUBSET S[s][1] :
                                     W.num[Cardinality(S[s][2]) + Cardinality(U)] > 0}}
    /\ (pc = "returned True" /\ last.L # {}) =>
          /\ last.L \subseteq last.flipped
          /\ last.flipped \ last.L \subseteq last.H
          /\ Cardinality(last.flipped) = last.m
          /\ last.m >= Cardinality(last.L)

\* a space with irreversible nodes selected with one flip more than |L|: the
\* nodes of L and one node of H are flipped
C25_Witness ==
    /\ pc = "returned True"
    /\ Cardinality(last.L) >= 1
    /\ last.m = Cardinality(last.L) + 1
    /\ last.flipped \cap last.H # {}
    /\ last.L \subseteq last.flipped

\* C26: a space (H, L) with empty L receives, for each multiplicity m from 1
\* to |H|, the weight binomial(|H|, m) (the number of sets of m nodes of H)
\* multiplied by the rate of multiplicity m, and weight 0 for every other
\* multiplicity; the cell of multiplicity m of space s is at position
\* (s-1)*n + m of the flattened array, and the sets a step can flip for the
\* space are the non-empty subsets of H whose size has a non-zero rate.
C26_EmptyLWeights ==
    /\ pc = "step" =>
          \A d \in resolve_depth(f, depth) :
              LET S    == reachable_spaces(f, x, d)
                  n    == Cardinality(DOMAIN f)
                  R    == flat_activity(S, W.num, n)
                  outs == sample_outcomes(x, S, W.num)
              IN  \A s \in 1..Len(S) :
                      S[s][2] = {} =>
                          /\ \A m \in 1..n :
                                 /\ activity(S, W.num, s, m) =
                                        Cardinality({T \in SUBSET S[s][1] :
                                            Cardinality(T) = m}) * W.num[m]
                                 /\ R[(s - 1) * n + m] = activity(S, W.num, s, m)
                                 /\ m > Cardinality(S[s][1]) =>
                                        activity(S, W.num, s, m) = 0
                          /\ flipped_with(outs, S[s][1], {}) =
                                 {T \in SUBSET S[s][1] :
                                     T # {} /\ W.num[Cardinality(T)] > 0}
    /\ (pc = "returned True" /\ last.L = {}) =>
          /\ last.flipped \subseteq last.H
          /\ Cardinality(last.flipped) = last.m
          /\ W.num[last.m] > 0

\* two of three or more reversible nodes flipped, with a rate for two flips
\* that differs from the rate for one
C26_Witness ==
    /\ pc = "returned True"
    /\ last.L = {}
    /\ Cardinality(last.H) >= 3
    /\ last.m = 2
    /\ W.num[2] # W.num[1]

\* C27: for every draw in [0, total) the cell (space, multiplicity) selected
\* is the first cell, in row-major order, whose cumulative weight exceeds
\* the draw, and its weight is strictly positive: its multiplicity has a
\* non-zero rate and lies in the range of the space, |L| .. |L| + |H| and at
\* least 1.  Weights are whole numbers here, so a draw stands for every draw
\* between it and the next whole number.
C27_SelectedCellPositive ==
    /\ pc = "step" =>
          \A d \in resolve_depth(f, depth) :
              LET S  == reachable_spaces(f, x, d)
                  n  == Cardinality(DOMAIN f)
                  cs == cumsum(flat_activity(S, W.num, n))
              IN  S # <<>> =>
                    \A draw \in 0..(total_activity(cs) - 1) :
                      LET cell == select_cell(cs, n, draw)
                          s    == cell[1]
                          m    == cell[2]
                      IN  /\ s \in 1..Len(S) /\ m \in 1..n
                          /\ cs[(s - 1) * n + m] > draw
                          /\ \A s2 \in 1..Len(S), m2 \in 1..n :
                                 (s2 < s \/ (s2 = s /\ m2 < m)) =>
                                     cs[(s2 - 1) * n + m2] <= draw
                          /\ activity(S, W.num, s, m) > 0
                          /\ W.num[m] > 0
                          /\ m >= Cardinality(S[s][2])
                          /\ m <= Cardinality(S[s][2]) + Cardinality(S[s][1])
    /\ pc = "returned True" =>
          /\ W.num[last.m] > 0
          /\ last.m >= 1
          /\ last.m >= Cardinality(last.L)
          /\ last.m <= Cardinality(last.L) + Cardinality(last.H)

\* a selection that passed over cells without weight: with a rate for single
\* flips only, the first space has weight on its first cell alone, and the
\* cell selected is the first of the second space
C27_Witness ==
    /\ pc = "returned True"
    /\ W = fully_asynchronous_rates(f)
    /\ last.m = 1
    /\ \E d \in resolve_depth(f, depth) :
          LET S == reachable_spaces(f, x0, d)
          IN  /\ Len(S) >= 2
              /\ Cardinality(S[1][2]) = 1
              /\ S[1][1] # {}
              /\ <<last.H, last.L>> = S[2]
              /\ S[2] # S[1]

\* C28: every pair (H, L) that reachable_spaces records has disjoint H and
\* L: together they are the non-empty set spread returned, and L holds the
\* irreversible nodes of that set (none at depth 1).
C28_SpacesDisjoint ==
    pc = "returned reachable_spaces" =>
        \A n \in 1..Len(last.first) :
            LET H == last.first[n][1]
                L == last.first[n][2]
            IN  /\ H \cap L = {}
                /\ H \cup L # {}
                /\ H \cup L \subseteq DOMAIN f
                /\ L = IF last.d > 1 THEN irreversible(f, x0, H \cup L) ELSE {}
                /\ \E m \in 1..Len(last.processed) :
                       H \cup L = spread(f, x0, last.processed[m], last.d)

\* a call that recorded a space with reversible and irreversible nodes
C28_Witness ==
    /\ pc = "returned reachable_spaces"
    /\ \E n \in 1..Len(last.first) :
          /\ last.first[n][1] # {}
          /\ Cardinality(last.first[n][2]) >= 2

\* C29: the spaces returned by one call of reachable_spaces on the networks
\* (all monotone) are pairwise distinct: no pair (H, L) is recorded twice,
\* and no two spaces are made of the same nodes, although several candidate
\* sets are explored.
C29_SpacesDistinct ==
    pc = "returned reachable_spaces" =>
        \A m, n \in 1..Len(last.first) :
            (\/ last.first[m] = last.first[n]
             \/ last.first[m][1] \cup last.first[m][2]
                    = last.first[n][1] \cup last.first[n][2]) => m = n

\* a call that explored more sets than it recorded spaces, and recorded
\* three or more
C29_Witness ==
    /\ pc = "returned reachable_spaces"
    /\ Len(last.first) >= 3
    /\ Len(last.processed) > Len(last.first)
    /\ \E m, n \in 1..Len(last.first) :
          m # n /\ last.first[m][1] = last.first[n][1]

\* the nodes whose formula at y gives another value than the one they have
unstable(y) == {i \in DOMAIN f : local_eval(f, i, y) # (y[i] = 1)}

\* C30: with depth 1 reachable_spaces does not use irreversibility: only the
\* set of all nodes is processed, and the list returned is empty when no
\* formula differs from the value of its node at x, and otherwise holds one
\* space, with L empty and H the set of the nodes whose formula at x differs
\* from their value.
C30_DepthOneSingleSpace ==
    (pc = "returned reachable_spaces" /\ last.d = 1) =>
        /\ Len(last.first) <= 1
        /\ last.processed = <<DOMAIN f>>
        /\ last.first = IF unstable(x0) = {} THEN <<>>
                        ELSE <<<<unstable(x0), {}>>>>

\* a call at depth 1 whose space holds a node that cannot flip back: at a
\* greater depth it would be in L
C30_Witness ==
    /\ pc = "returned reachable_spaces"
    /\ last.d = 1
    /\ Len(last.first) = 1
    /\ last.first[1][2] = {}
    /\ Cardinality(last.first[1][1]) >= 2
    /\ irreversible(f, x0, last.first[1][1]) # {}

\* C31: for every depth d >= 1, reachable_spaces returns an empty list if and
\* only if x is a fixed point of the network (the formula of every node
\* evaluates to the value of the node); every space it records has H union L
\* non-empty.
C31_EmptyIffFixedPoint ==
    (pc = "returned reachable_spaces" /\ last.d >= 1) =>
        /\ (last.first = <<>>) <=>
               (\A i \in DOMAIN f : local_eval(f, i, x0) <=> (x0[i] = 1))
        /\ \A n \in 1..Len(last.first) :
               last.first[n][1] \cup last.first[n][2] # {}

\* a call at a fixed point with a depth of two or more: nothing is recorded
C31_Witness ==
    /\ pc = "returned reachable_spaces"
    /\ last.d >= 2
    /\ last.first = <<>>
    /\ last.processed = <<DOMAIN f>>
    /\ unstable(x0) = {}

\* C32: on the networks (all monotone), every node that reachable_spaces
\* places in an irreversible set L is a node whose formula disagrees with its
\* value at x already (it can flip in the first round of spread); hence a
\* non-empty result always holds a space with |L| <= 1.
C32_IrreversibleFlipsAtOnce ==
    pc = "returned reachable_spaces" =>
        /\ \A n \in 1..Len(last.first) : last.first[n][2] \subseteq unstable(x0)
        /\ last.first # <<>> =>
               \E n \in 1..Len(last.first) : Cardinality(last.first[n][2]) <= 1

\* a call that recorded a space with two or more irreversible nodes beside
\* a reversible node that cannot flip in the first round
C32_Witness ==
    /\ pc = "returned reachable_spaces"
    /\ \E n \in 1..Len(last.first) :
          /\ Cardinality(last.first[n][2]) >= 2
          /\ ~(last.first[n][1] \subseteq unstable(x0))

\* C33: step calls the sampler only when reachable_spaces returned a
\* non-empty list: a call that returns True found a space for the depth it
\* drew and flipped nodes of it, and a call that returns False found no
\* space, sampled nothing and left the configuration x as it was.
C33_StepChecksSpaces ==
    /\ pc = "returned True" =>
          /\ ~last.noop
          /\ \E d \in resolve_depth(f, depth) :
                 LET S == reachable_spaces(f, x0, d)
                 IN  /\ S # <<>>
                     /\ \E n \in 1..Len(S) : S[n] = <<last.H, last.L>>
          /\ last.flipped # {}
          /\ x # x0
    /\ pc = "returned False" =>
          /\ last.noop
          /\ \E d \in resolve_depth(f, depth) : reachable_spaces(f, x0, d) = <<>>
          /\ last.flipped = {}
          /\ last.pre = x0 /\ last.post = x0
          /\ x = x0

\* a call of step at a fixed point, with a depth drawn at random
C33_Witness ==
    /\ pc = "returned False"
    /\ depth.callable
    /\ x = x0
    /\ unstable(x0) = {}

\* the configurations of the hypercube of an attractor <<fx, H>>, fx giving
\* the fixed coordinates: those that agree with fx wherever fx is defined
\* outside H
configurations(a) ==
    {z \in [DOMAIN f -> {0, 1}] : \A i \in (DOMAIN a[1]) \ a[2] : z[i] = a[1][i]}

\* C39: is_subhypercube(a, b) is a containment test: for an attractor
\* a = (fixed coordinates, free set) covering all the nodes and b = (y, G)
\* with y a configuration, it is true if and only if every configuration of
\* the hypercube a belongs to the hypercube b, that is if and only if the
\* free set of a is a subset of G and the fixed coordinates of a agree with
\* y on every node outside G.
C39_SubhypercubeIsContainment ==
    (/\ pc = "returned is_subhypercube"
     /\ DOMAIN last.a[1] = DOMAIN f \ last.a[2]
     /\ DOMAIN last.b[1] = DOMAIN f) =>
        /\ last.ret <=> configurations(last.a) \subseteq hypercube(last.b[1], last.b[2])
        /\ last.ret <=>
               /\ last.a[2] \subseteq last.b[2]
               /\ \A i \in DOMAIN f \ last.b[2] : last.a[1][i] = last.b[1][i]

\* an attractor with a free node inside a larger hypercube around another
\* configuration: the two differ on a node that is free in the larger one
C39_Witness ==
    /\ pc = "returned is_subhypercube"
    /\ DOMAIN last.a[1] = DOMAIN f \ last.a[2]
    /\ DOMAIN last.b[1] = DOMAIN f
    /\ last.a[2] # {}
    /\ last.a[2] # last.b[2]
    /\ \E i \in DOMAIN last.a[1] : last.a[1][i] # last.b[1][i]
    /\ last.ret

RECURSIVE sum_of(_, _)
sum_of(ws, n) == IF n = 0 THEN 0 ELSE ws[n] + sum_of(ws, n - 1)

\* C38: the parallel estimator splits the runs as evenly as possible: the
\* shares of the workers are non-negative, sum to exactly nb_sims, and any
\* two of them differ by at most 1.
C38_EvenShares ==
    /\ DOMAIN w_nb_sims = 1..nb_jobs
    /\ \A w \in 1..nb_jobs : w_nb_sims[w] >= 0
    /\ sum_of(w_nb_sims, nb_jobs) = nb_sims
    /\ \A v, w \in 1..nb_jobs : w_nb_sims[v] - w_nb_sims[w] <= 1

\* an estimation that has ended with unequal shares, more than one run left
\* over by the division
C38_Witness ==
    /\ pc = "done"
    /\ nb_sims % nb_jobs >= 2
    /\ \E v, w \in 1..nb_jobs : wi[v] = 1 /\ wi[w] = 0

\* the progress signals the coordinator has consumed, the tallies it has read
signals_consumed ==
    IF pc = "start" THEN 0 ELSE IF pc = "progress" THEN ci ELSE nb_sims
tallies_read ==
    IF pc = "combine" THEN ci ELSE IF pc \in {"percent", "done"} THEN nb_jobs ELSE 0

\* C37: each worker of the parallel estimator emits one progress signal per
\* completed run, after the run has been tallied (its tally counts as many
\* runs as it has emitted signals, one more while it is about to signal),
\* and one final tally, after its last signal (a worker that has sent its
\* tally has emitted its whole share of signals, and the tallies in the
\* pipe or read are those of the workers that have exited); the signals
\* emitted by workers that all ran to their end number nb_sims; and the
\* coordinator reads tallies only once it has consumed nb_sims signals and
\* every worker has ended.
C37_SignalsAndTallies ==
    /\ \A w \in 1..nb_jobs :
          /\ wpc[w] = "put q" => tally_sum(wC[w], DOMAIN wC[w]) = wi[w] + 1
          /\ wpc[w] \in {"created", "for", "exited"} => tally_sum(wC[w], DOMAIN wC[w]) = wi[w]
          /\ wi[w] <= w_nb_sims[w]
          /\ wpc[w] = "exited" => wi[w] = w_nb_sims[w]
    /\ Len(q) + signals_consumed = sum_of(wi, nb_jobs)
    /\ Len(r) + tallies_read = Cardinality({w \in 1..nb_jobs : wpc[w] = "exited"})
    /\ (\A w \in 1..nb_jobs : wpc[w] = "exited") => sum_of(wi, nb_jobs) = nb_sims
    /\ pc \in {"combine", "percent", "done"} =>
          /\ signals_consumed = nb_sims
          /\ q = <<>>
          /\ \A w \in 1..nb_jobs : wpc[w] \in {"exited", "crashed"}

\* the coordinator has read the first of several tallies: every worker has
\* exited, one of them after several runs
C37_Witness ==
    /\ pc = "combine"
    /\ ci = 1
    /\ nb_jobs >= 2
    /\ \A w \in 1..nb_jobs : wpc[w] = "exited"
    /\ \E w \in 1..nb_jobs : wi[w] >= 2

\* C34: in sample_reachable_attractor the filtering is recomputed once before
\* the first step, after every refresh_rate-th step counted from the start
\* of the run or from its last step that did nothing, and right after any
\* step that did nothing; after every other step the candidate list is left
\* as it is.  With since counting those steps modulo refresh_rate: at the
\* test of the loop the last operation was a filtering exactly when the
\* count is 0, and the operation that follows a step recomputes the
\* filtering at the current configuration when the count is 0 and leaves
\* the list unchanged otherwise.
C34_RefreshSchedule ==
    /\ [](pc = "while" => (filtered <=> since = 0))
    /\ [](pc = "refresh" => ~filtered)
    /\ [][pc = "refresh" =>
             A' = IF since = 0 THEN filter_reachable_attractors(f, A, x) ELSE A]_vars

\* the filtering has just been recomputed away from the initial
\* configuration, at a configuration that is not a fixed point: after a
\* refresh_rate-th step, not after a step that did nothing
C34_Witness ==
    /\ pc = "while"
    /\ filtered
    /\ since = 0
    /\ x # x0
    /\ unstable(x) # {}

\* C35: a run works on a copy of the initial state.  No operation of
\* sample_reachable_attractor or of sample_trace changes the configuration
\* or the attractor list of the caller, and every run of the estimator, like
\* the trace, starts from that configuration and from the filtering of the
\* whole list at it.
C35_RunsOnACopy ==
    [][/\ x0' = x0
       /\ A0' = A0
       /\ (pc \in {"for", "sample_trace"} /\ pc' \in {"while", "trace while"}) =>
             /\ x' = x0
             /\ A' = filter_reachable_attractors(f, enumerate_attractors(A0), x0)]_vars

\* the second run of an estimation starts with several candidates at the
\* initial configuration: the first run has made steps to end with one
C35_Witness ==
    /\ pc = "while"
    /\ sim = 1
    /\ filtered
    /\ since = 0
    /\ x = x0
    /\ Len(A) > 1
    /\ unstable(x0) # {}

\* the configurations one call of step can leave when it is given y
step_posts(y) ==
    UNION {LET S == reachable_spaces(f, y, d)
           IN  IF S = <<>> THEN {y}
               ELSE {o.post : o \in sample_outcomes(y, S, W.num)}
           : d \in resolve_depth(f, depth)}

\* C36: sample_trace returns the initial configuration followed by the
\* configuration after every step, and stops as soon as the current
\* configuration equals the fixed coordinates of the unique remaining
\* attractor, so that the last element of the trace is the configuration of
\* that attractor.  The trace starts with the initial configuration and ends
\* with the current one; no element but the last equals the fixed
\* coordinates of an attractor of the list; when the trace is returned one
\* candidate remains, it has no free node and its coordinates are the last
\* element; and the trace only changes by the appending of a configuration
\* that a step can leave from the current one.
C36_TraceEndsAtAttractor ==
    /\ [](pc \in {"trace while", "returned sample_trace"} =>
            /\ trace[1] = x0
            /\ trace[Len(trace)] = x
            /\ \A n \in 1..(Len(trace) - 1) :
                  \A e \in 1..Len(EA) : EA[e][2][2] = {} => EA[e][2][1] # trace[n]
            /\ pc = "returned sample_trace" =>
                  /\ Len(A) = 1
                  /\ A[1][2][2] = {}
                  /\ A[1][2][1] = trace[Len(trace)])
    /\ [][(pc = "trace while" /\ trace' # trace) =>
             /\ x' \in step_posts(x)
             /\ trace' = Append(trace, x')]_vars

\* a trace of three steps returned from a configuration where several
\* attractors were candidates
C36_Witness ==
    /\ pc = "returned sample_trace"
    /\ Len(trace) = 4
    /\ Len(filter_reachable_attractors(f, EA, x0)) > 1

\* C40: the scratch buffer is sized to the largest number of transition
\* spaces seen.  Its number of rows never decreases, whatever the operation,
\* over the steps and the runs that share it, and every step that samples
\* leaves it with at least as many rows as the list it sampled from has
\* spaces: a list S computed at x, at a depth the step can use, from which
\* the new configuration can be sampled.
C40_BufferHoldsSpaces ==
    [][/\ mem' >= mem
       /\ (pc \in {"while", "trace while"} /\ x' # x) =>
             \E d \in resolve_depth(f, depth) :
                 /\ reachable_spaces(f, x, d) # <<>>
                 /\ x' \in {o.post : o \in sample_outcomes(x, reachable_spaces(f, x, d), W.num)}
                 /\ mem' >= Len(reachable_spaces(f, x, d))]_vars

\* the second run of an estimation is about to sample, from a list of fewer
\* spaces, with a buffer that an earlier step has grown beyond its len(f)
\* rows
C40_Witness ==
    /\ pc = "while"
    /\ sim = 1
    /\ Len(A) > 1
    /\ x # x0
    /\ mem > Cardinality(DOMAIN f)
    /\ \A d \in resolve_depth(f, depth) :
          /\ reachable_spaces(f, x, d) # <<>>
          /\ Len(reachable_spaces(f, x, d)) < mem


RECURSIVE sum_tallies(_, _)
sum_tallies(Ts, n) ==
    IF n = 0 THEN zero_tally ELSE add_tally(sum_tallies(Ts, n - 1), Ts[n])

no_worker_failed == \A w \in 1..nb_jobs : wpc[w] \notin {"crashed", "stalled"}

\* worker w has run its share and is blocked in r.put: the pipe is full
blocked_on_result(w) ==
    wpc[w] = "for" /\ wi[w] = w_nb_sims[w] /\ Len(r) >= RCap

\* worker w is blocked in q.put: the pipe is full
blocked_on_progress(w) == wpc[w] = "put q" /\ Len(q) >= QCap

\* C6: in the parallel estimator the aggregated hit counts are the sum over
\* the workers of their local tallies and total nb_sims, in every
\* interleaving of the runs and every order of arrival of the tallies: while
\* tallies are being received, those received and those still in the channel
\* add up to the workers' tallies, and once all are received the sum is
\* complete and totals nb_sims.
C6_AggregateIsSumOfTallies ==
    /\ (pc = "combine" /\ no_worker_failed) =>
          add_tally(C, sum_tallies(r, Len(r))) = sum_tallies(wC, nb_jobs)
    /\ pc \in {"percent", "done"} =>
          /\ C = sum_tallies(wC, nb_jobs)
          /\ tally_sum(C, DOMAIN C) = nb_sims

\* two workers with different tallies, the estimate returned
C6_Witness ==
    /\ pc = "done"
    /\ nb_jobs = 2
    /\ nb_sims = 3
    /\ \E ia \in Ids : wC[1][ia] = 0 /\ wC[2][ia] = 1

\* C7: when no worker fails the parallel estimator never has its coordinator
\* waiting for the end of a worker (join) while a worker is blocked sending on
\* a channel.
C7_NoJoinWhileWorkerBlocked ==
    (pc = "join" /\ no_worker_failed) =>
        \A w \in 1..nb_jobs : ~blocked_on_result(w) /\ ~blocked_on_progress(w)

\* C8: the parallel estimator returns the mapping the sequential estimator
\* computes from the same multiset of outcomes of the runs, for every number
\* of workers.
C8_SameMappingAsSequential ==
    pc = "done" => result = percentages(EA, outcomes, nb_sims)

\* an estimate by two workers whose runs did not all have the same outcome
C8_Witness ==
    /\ pc = "done"
    /\ nb_jobs = 2
    /\ nb_sims = 3
    /\ \E ia \in Ids : outcomes[ia] = 2
    /\ wi[1] = 2 /\ wi[2] = 1

\* C9: once a worker has crashed or stalled before completing its share the
\* coordinator never returns: it stays in front of the progress channel (a
\* signal is missing).  A worker that crashed after its last signal leaves the
\* coordinator in front of the result channel (a tally is missing).
C9_CoordinatorBlocksOnFailure ==
    /\ (\E w \in 1..nb_jobs :
           wpc[w] \in {"crashed", "stalled"} /\ wi[w] < w_nb_sims[w])
          => pc \in {"start", "progress"} /\ result = <<>>
    /\ (\E w \in 1..nb_jobs : wpc[w] \in {"crashed", "stalled"})
          => pc \in {"start", "progress", "join", "combine"} /\ result = <<>>

\* a worker crashed in the middle of its share, every other worker has
\* exited, and the coordinator waits for a signal that will not come
C9_Witness ==
    /\ pc = "progress"
    /\ q = <<>>
    /\ nb_jobs = 2
    /\ wpc[1] = "crashed" /\ wi[1] = 1 /\ w_nb_sims[1] = 2
    /\ wpc[2] = "exited"

====
